---- MODULE Spec2Model ----
(***************************************************************************)
(* A model of the engine sound generator (DasEtwas/enginesound): the       *)
(* LoopBuffer / DelayLine / WaveGuide / Cylinder / Generator sample loop   *)
(* of gen.rs, the ExactStreamer of exactstreamer.rs and the Recorder of    *)
(* recorder.rs.                                                            *)
(*                                                                         *)
(* Numbers.  An f32 sample is modelled by an integer, a Vec<f32> by a      *)
(* function over 0..n-1 (the source's indices).  A usize is a natural      *)
(* number.                                                                 *)
(***************************************************************************)
EXTENDS Integers, Sequences, FiniteSets, TLC

VARIABLES
    cpu,            \* the SIMD feature level is_x86_feature_detected! reports
    lb,             \* a LoopBuffer under test
    lb_trace,       \* the operations performed on lb, with their results
    streamer,       \* an ExactStreamer: [remainder, remainder_len]
    channel,        \* the batches sent on the streamer's channel and not yet received
    sender_alive,   \* whether the channel's Sender still exists
    sent,           \* every element sent so far, in send order
    fill_pc,        \* "idle", or "recv" while a fill call is blocked in receiver.recv()
    fill_out,       \* the out slice of the fill call in progress (or of the last one)
    fill_i,         \* the local i of the fill call in progress
    fill_result,    \* what the last fill call returned: "none", "ok" or "err"
    fill_failed,    \* whether some fill call so far returned Err
    fill_received,  \* <<the last batch receiver.recv() returned>>, <<>> before the first
    delivered,      \* the outs of the fill calls that returned Ok, concatenated
    recorder,       \* a Recorder: [len, running, block_lock]
    rec_channel,    \* the batches sent to the recorder's worker and not yet received
    rec_receiver,   \* whether the worker's Receiver still exists
    worker_pc,      \* where the recorder's worker thread is
    wav,            \* the WAV file: [samples, flushed]
    caller_pc,      \* where the thread that owns the Recorder is
    enqueued,       \* every sample that record has sent on the channel, in order
    last_record,    \* the last record call: [called, running, sent]
    stop_wait_returned, \* whether a stop_wait call has returned
    stopped_at,     \* where the worker was when the Recorder was first stopped or dropped
    gen_config,     \* the engine config the generator was loaded from
    generator,      \* the Generator
    buf,            \* the buffer the last generate call filled
    gen_log,        \* per sample of the last generate call, its pop and push events
    gen_samples,    \* the number of samples generated so far
    gen_resets,     \* the number of reset calls so far
    gen_op,         \* the last call on the generator: "new", "generate" or "reset"
    gen_lock,       \* who holds the write lock of the Arc<RwLock<Generator>>
    params,         \* the parameters of the shared Generator: the number of mutations so far
    worker,         \* the generator worker thread of audio::init
    audio_channel,  \* per consumer, the buffers sent to it and not yet received
    consumer,       \* per consumer ("player", "fft"), its ExactStreamer and position
    gui_pc,         \* where the main (GUI) thread is
    dropped_at,     \* what the worker was doing when the Audio handle was dropped
    main_args,      \* the command line of main: the clap matches
    main_pc,        \* where main is
    main_engine,    \* the engine of main's generator: the config it was loaded from
    main_output,    \* the Vec output of the headless run
    main_run,       \* main's effects: samples generated, crossfade, Recorder, WAV, exit code
    eng_build,      \* the build of the binary: "debug" (overflow checks) or "release"
    eng_file,       \* the engine config file being loaded
    eng_pc,         \* "start", "loaded", or "panicked"
    eng_engine,     \* <<the Engine>> once loaded, <<>> before and after a panic
    eng_edits,      \* the number of GUI edits of the engine so far
    wg,             \* a WaveGuide under test
    wg_last,        \* the last call on wg: its name, the waveguide before it, what it returned
    wg_ops,         \* the number of calls on wg so far
    cyl,            \* a Cylinder under test
    cyl_shifts,     \* the engine's intake_valve_shift and exhaust_valve_shift
    cyl_last,       \* the last call on cyl: its name and arguments
    xf              \* the crossfade of a recording: the locals of main.rs:116-151

loop_vars == <<lb, lb_trace>>
stream_vars == <<streamer, channel, sender_alive, sent, fill_pc, fill_out, fill_i,
                 fill_result, fill_failed, fill_received, delivered>>
rec_vars == <<recorder, rec_channel, rec_receiver, worker_pc, wav, caller_pc, enqueued,
              last_record, stop_wait_returned, stopped_at>>
gen_vars == <<gen_config, generator, buf, gen_log, gen_samples, gen_resets, gen_op>>
audio_vars == <<gen_lock, params, worker, audio_channel, consumer, gui_pc, dropped_at>>
main_vars == <<main_args, main_pc, main_engine, main_output, main_run>>
eng_vars == <<eng_build, eng_file, eng_pc, eng_engine, eng_edits>>
wg_vars == <<wg, wg_last, wg_ops>>
cyl_vars == <<cyl, cyl_shifts, cyl_last>>
vars == <<cpu, loop_vars, stream_vars, rec_vars, gen_vars, audio_vars, main_vars, eng_vars,
          wg_vars, cyl_vars, xf>>

\* What an action on the LoopBuffer under test, and one on the ExactStreamer,
\* leave alone.
not_loop_vars == <<cpu, stream_vars, rec_vars, gen_vars, audio_vars, main_vars, eng_vars,
    wg_vars, cyl_vars, xf>>
not_stream_vars == <<cpu, loop_vars, rec_vars, gen_vars, audio_vars, main_vars, eng_vars,
    wg_vars, cyl_vars, xf>>
not_rec_vars == <<cpu, loop_vars, stream_vars, gen_vars, audio_vars, main_vars, eng_vars,
    wg_vars, cyl_vars, xf>>
not_gen_vars == <<cpu, loop_vars, stream_vars, rec_vars, audio_vars, main_vars, eng_vars,
    wg_vars, cyl_vars, xf>>
not_audio_vars == <<cpu, loop_vars, stream_vars, rec_vars, gen_vars, main_vars, eng_vars,
    wg_vars, cyl_vars, xf>>
not_main_vars == <<cpu, loop_vars, stream_vars, rec_vars, gen_vars, audio_vars, eng_vars,
    wg_vars, cyl_vars, xf>>
not_eng_vars == <<cpu, loop_vars, stream_vars, rec_vars, gen_vars, audio_vars, main_vars,
    wg_vars, cyl_vars, xf>>
not_wg_vars == <<cpu, loop_vars, stream_vars, rec_vars, gen_vars, audio_vars, main_vars,
    eng_vars, cyl_vars, xf>>
not_cyl_vars == <<cpu, loop_vars, stream_vars, rec_vars, gen_vars, audio_vars, main_vars,
    eng_vars, wg_vars, xf>>
not_xf_vars == <<cpu, loop_vars, stream_vars, rec_vars, gen_vars, audio_vars, main_vars,
    eng_vars, wg_vars, cyl_vars>>

\* The value of a variable that belongs to a component no thread is running.
Idle == "idle"

\* No ExactStreamer exists.
StreamIdle ==
    /\ streamer = Idle /\ channel = Idle /\ sender_alive = Idle /\ sent = Idle
    /\ fill_pc = Idle /\ fill_out = Idle /\ fill_i = Idle /\ fill_result = Idle
    /\ fill_failed = Idle /\ fill_received = Idle /\ delivered = Idle

\* No LoopBuffer is under test.
LoopIdle == lb = Idle /\ lb_trace = Idle

\* No Recorder exists.
RecIdle ==
    /\ recorder = Idle /\ rec_channel = Idle /\ rec_receiver = Idle /\ worker_pc = Idle
    /\ wav = Idle /\ caller_pc = Idle /\ enqueued = Idle /\ last_record = Idle
    /\ stop_wait_returned = Idle /\ stopped_at = Idle

\* No Generator exists.
GenIdle ==
    /\ gen_config = Idle /\ generator = Idle /\ buf = Idle /\ gen_log = Idle
    /\ gen_samples = Idle /\ gen_resets = Idle /\ gen_op = Idle

\* No audio stream exists.
AudioIdle ==
    /\ gen_lock = Idle /\ params = Idle /\ worker = Idle /\ audio_channel = Idle
    /\ consumer = Idle /\ gui_pc = Idle /\ dropped_at = Idle

\* main is not running.
MainIdle ==
    /\ main_args = Idle /\ main_pc = Idle /\ main_engine = Idle /\ main_output = Idle
    /\ main_run = Idle

\* No engine is being loaded or edited.
EngIdle ==
    /\ eng_build = Idle /\ eng_file = Idle /\ eng_pc = Idle /\ eng_engine = Idle
    /\ eng_edits = Idle

\* No WaveGuide and no Cylinder is under test.
WgIdle == wg = Idle /\ wg_last = Idle /\ wg_ops = Idle

CylIdle == cyl = Idle /\ cyl_shifts = Idle /\ cyl_last = Idle

\* No recording is being crossfaded.
XfIdle == xf = Idle

(***************************************************************************)
(* Bounds of the model.                                                    *)
(***************************************************************************)
\* Largest logical length of the LoopBuffer under test.
MaxLen == 3
\* Largest number of operations performed on the LoopBuffer under test.
MaxOps == 7

\* Largest length of a batch sent on the streamer's channel.
MaxBatch == 3
\* Largest length of the out slice of a fill call.
MaxOut == 3
\* Largest number of elements sent on the streamer's channel.
MaxSent == 6
\* Largest number of batches queued in the streamer's channel.
MaxQueued == 2
\* Largest remainder_buffer_size an ExactStreamer is built with.
MaxRemainder == 1

\* Samples per second of every component.
SampleRate == 4

\* Longest buffer handed to Generator::generate.
MaxBuf == 2
\* Largest number of samples a generator produces.
MaxSamples == 7
\* Largest number of reset calls on a generator.
MaxResets == 1
\* Largest number of cylinders and of muffler elements of an engine.
MaxCylinders == 2
MaxMufflerElements == 2

\* The number of steps in which a generate call of the audio worker is
\* observed, and the largest number of parameter mutations by the GUI.
GenSteps == 2
MaxMutations == 1

\* The longest warmup, recording and crossfade of a headless run, in half
\* samples, and the largest number of samples generated in GUI mode.
MaxWarmupTime == 1
MaxRecordTime == 8
MaxCrossfadeTime == 8
MaxGuiSamples == 2

\* The longest delay a config file persists, in half samples at SampleRate,
\* the longest cavity a GUI slider sets, in samples, and the largest number
\* of GUI edits of a loaded engine.
MaxDelayTime == 4
MaxCavity == 2
MaxEdits == 1

\* The largest number of calls on the WaveGuide under test, and its longest
\* chamber.
MaxWgOps == 4
MaxChamber == 2

\* The largest number of calls on the Cylinder under test.
MaxCylOps == 2

\* The longest recording that is crossfaded, in samples.
MaxXfLen == 6

\* Largest number of samples recorded by a Recorder.
MaxRecorded == 4
\* Largest number of batches queued in a Recorder's channel.
MaxRecQueued == 2

\* Sample values pushed into the LoopBuffer under test (never 0, so that a
\* written slot differs from a zero-initialised one).
PushValues == {1, 2}

(***************************************************************************)
(* simdeez vector widths, gen.rs:484-492.                                  *)
(***************************************************************************)
CpuFeatures == {"avx2", "sse4.1", "sse2", "scalar"}

VF32_WIDTH(feature) ==
    CASE feature = "avx2"   -> 8
      [] feature = "sse4.1" -> 4
      [] feature = "sse2"   -> 4
      [] OTHER              -> 1

(***************************************************************************)
(* LoopBuffer, gen.rs:460-521.                                             *)
(***************************************************************************)
\* LoopBuffer::get_best_simd_size: (size / W).ceil() * W for the detected W.
\* For size = 0 the usize size - 1 overflows: a build with overflow checks
\* panics there (the callers model that), and one without wraps to
\* usize::MAX, where (usize::MAX / W + 1) * W wraps to 0, which is also what
\* the floored division below gives.
get_best_simd_size(size, feature) ==
    ((size - 1) \div VF32_WIDTH(feature) + 1) * VF32_WIDTH(feature)

\* vec.len()
VecLen(v) == Cardinality(DOMAIN v)

Min(a, b) == IF a < b THEN a ELSE b

\* vec![0.0; n]
ZeroVec(n) == [i \in 0..(n - 1) |-> 0]

\* The field delay (seconds) is the fraction samples / rate.
Seconds(samples, rate) == [samples |-> samples, rate |-> rate]

\* LoopBuffer::new(len, samples_per_second)
LoopBuffer_new(len, samples_per_second, feature) ==
    [ delay |-> Seconds(len, samples_per_second),
      len   |-> len,
      data  |-> ZeroVec(get_best_simd_size(len, feature)),
      pos   |-> 0 ]

\* A push that wraps at the padded storage size instead of the logical length.
LoopBuffer_push_wraps_at_storage(self, value) ==
    [self EXCEPT !.data[self.pos % Cardinality(DOMAIN self.data)] = value]

\* LoopBuffer::push: self.data[self.pos % len] = value
LoopBuffer_push(self, value) ==
    [self EXCEPT !.data[self.pos % self.len] = value]

\* LoopBuffer::pop: self.data[(self.pos + 1) % len]
LoopBuffer_pop(self) ==
    self.data[(self.pos + 1) % self.len]

\* LoopBuffer::advance: self.pos += 1
LoopBuffer_advance(self) ==
    [self EXCEPT !.pos = self.pos + 1]

(***************************************************************************)
(* DelayLine, gen.rs:604-621: a LoopBuffer under the field samples.        *)
(***************************************************************************)
DelayLine_new(delay, samples_per_second, feature) ==
    [samples |-> LoopBuffer_new(delay, samples_per_second, feature)]

DelayLine_pop(self) == LoopBuffer_pop(self.samples)

DelayLine_push(self, sample) ==
    [self EXCEPT !.samples = LoopBuffer_push(self.samples, sample)]

(***************************************************************************)
(* f32 arithmetic of gen.rs on integers.  A sample is an integer, a        *)
(* reflection factor is -1, 0 or 1 (so a product of the two is exact), and *)
(* a quotient is truncated toward zero.  A crank position counts eighths   *)
(* of the 4-stroke cycle, and the value of a sine or cosine counts         *)
(* thousandths.                                                            *)
(***************************************************************************)
Abs(x) == IF x < 0 THEN -x ELSE x

\* f32::signum: 1.0 for +0.0 and above, -1.0 below.
Signum(x) == IF x < 0 THEN -1 ELSE 1

\* a / b on f32, truncated toward zero.
TDiv(a, b) ==
    IF (a < 0) = (b < 0) THEN Abs(a) \div Abs(b) ELSE -(Abs(a) \div Abs(b))

\* (num / den) as usize on f32: truncated, and a negative value saturates to 0.
AsUsize(num, den) == IF TDiv(num, den) < 0 THEN 0 ELSE TDiv(num, den)

\* 1.0 as a crank position (gen.rs:59: "crankshaft position, 0.0-1.0").
CrankOne == 8

\* 1.0 as the value of sin and cos.
TrigOne == 1000

\* x % 1.0 on a crank position: Rust's remainder has the sign of x.
Fract(x) == x - CrankOne * TDiv(x, CrankOne)

\* 1000 * sin(2 pi n / 64) for n in 0..16, rounded.
QuarterSine ==
    <<0, 98, 195, 290, 383, 471, 556, 634, 707, 773, 831, 882, 924, 957, 981, 995, 1000>>

\* 1000 * sin(2 pi n / 64) for every integer n.
Sin64(n) ==
    LET m == n % 64
    IN  IF m <= 16 THEN QuarterSine[m + 1]
        ELSE IF m <= 32 THEN QuarterSine[32 - m + 1]
        ELSE IF m <= 48 THEN -QuarterSine[m - 32 + 1]
        ELSE -QuarterSine[64 - m + 1]

\* (crank_pos * PI4F).sin() and .cos(): crank_pos * 4 pi = 2 pi * (16 crank_pos) / 64
SinPi4(crank_pos) == Sin64(16 * crank_pos)
CosPi4(crank_pos) == Sin64(16 * crank_pos + 16)

\* x * y for a sample x and a sine or cosine y.
MulTrig(x, y) == TDiv(x * y, TrigOne)

(***************************************************************************)
(* The cycle functions, gen.rs:623-649.                                    *)
(***************************************************************************)
exhaust_valve(crank_pos) ==
    IF 6 < crank_pos /\ crank_pos < CrankOne THEN -SinPi4(crank_pos) ELSE 0

intake_valve(crank_pos) ==
    IF 0 < crank_pos /\ crank_pos < 2 THEN SinPi4(crank_pos) ELSE 0

piston_motion(crank_pos) == CosPi4(crank_pos)

\* (PI2F * (crank_pos * ignition_time + 0.5)).sin(): crank_pos * ignition_time
\* counts 64ths of a turn, 0.5 is 32 of them.
fuel_ignition(crank_pos, ignition_time) ==
    IF 0 < crank_pos /\ crank_pos < ignition_time
    THEN Sin64(crank_pos * ignition_time + 32)
    ELSE 0

(***************************************************************************)
(* WaveGuide, gen.rs:393-458.                                              *)
(***************************************************************************)
\* gen.rs:28
WAVEGUIDE_MAX_AMP == 20

WaveGuide_new(delay, alpha, beta, samples_per_second, feature) ==
    [ chamber0 |-> DelayLine_new(delay, samples_per_second, feature),
      chamber1 |-> DelayLine_new(delay, samples_per_second, feature),
      alpha    |-> alpha,
      beta     |-> beta,
      c1_out   |-> 0,
      c0_out   |-> 0 ]

\* A dampen that leaves out sample.signum().
dampen_unsigned(sample) ==
    LET sample_abs == Abs(sample)
    IN  IF sample_abs > WAVEGUIDE_MAX_AMP
        THEN [ sample   |-> TDiv(-1, sample_abs - WAVEGUIDE_MAX_AMP + 1)
                            + 1 + WAVEGUIDE_MAX_AMP,
               dampened |-> TRUE ]
        ELSE [ sample |-> sample, dampened |-> FALSE ]

\* WaveGuide::dampen: (sample, dampened).  The quotient -1.0 / (..) is
\* rounded to the grid of the samples: on the integers it is 0 for every
\* |sample| > 20, as in f32 the sum -1.0 / (..) + 1.0 + 20.0 is rounded to
\* 21.0 for every |sample| above 1.02e6.
dampen(sample) ==
    LET sample_abs == Abs(sample)
    IN  IF sample_abs > WAVEGUIDE_MAX_AMP
        THEN [ sample   |-> Signum(sample) * (TDiv(-1, sample_abs - WAVEGUIDE_MAX_AMP + 1)
                                              + 1 + WAVEGUIDE_MAX_AMP),
               dampened |-> TRUE ]
        ELSE [ sample |-> sample, dampened |-> FALSE ]

\* A pop that returns the dampened flag of chamber1 only.
WaveGuide_pop_flags_chamber1(self) ==
    LET c1 == dampen(DelayLine_pop(self.chamber1))
        c0 == dampen(DelayLine_pop(self.chamber0))
    IN  [ self     |-> [self EXCEPT !.c1_out = c1.sample, !.c0_out = c0.sample],
          alpha    |-> c1.sample * (1 - Abs(self.alpha)),
          beta     |-> c0.sample * (1 - Abs(self.beta)),
          dampened |-> c1.dampened ]

\* WaveGuide::pop: the waveguide after the call and the returned tuple.
WaveGuide_pop(self) ==
    LET c1 == dampen(DelayLine_pop(self.chamber1))
        c0 == dampen(DelayLine_pop(self.chamber0))
    IN  [ self     |-> [self EXCEPT !.c1_out = c1.sample, !.c0_out = c0.sample],
          alpha    |-> c1.sample * (1 - Abs(self.alpha)),
          beta     |-> c0.sample * (1 - Abs(self.beta)),
          dampened |-> c1.dampened \/ c0.dampened ]

\* WaveGuide::push
\* A push that advances chamber0 only.
WaveGuide_push_advances_chamber0(self, x0_in, x1_in) ==
    LET c0_in == self.c1_out * self.alpha + x0_in
        c1_in == self.c0_out * self.beta + x1_in
        pushed0 == DelayLine_push(self.chamber0, c0_in)
        pushed1 == DelayLine_push(self.chamber1, c1_in)
    IN  [self EXCEPT !.chamber0 = [samples |-> LoopBuffer_advance(pushed0.samples)],
                     !.chamber1 = pushed1]

WaveGuide_push(self, x0_in, x1_in) ==
    LET c0_in == self.c1_out * self.alpha + x0_in
        c1_in == self.c0_out * self.beta + x1_in
        pushed0 == DelayLine_push(self.chamber0, c0_in)
        pushed1 == DelayLine_push(self.chamber1, c1_in)
    IN  [self EXCEPT !.chamber0 = [samples |-> LoopBuffer_advance(pushed0.samples)],
                     !.chamber1 = [samples |-> LoopBuffer_advance(pushed1.samples)]]

(***************************************************************************)
(* LowPassFilter, gen.rs:523-602.  The f32 field len counts half samples,  *)
(* so that a length with a fractional part (one half) exists.              *)
(***************************************************************************)
\* LowPassFilter::new(freq, samples_per_second), with freq in half hertz:
\* len = (samples_per_second / freq).min(samples_per_second).max(1.0)
LowPassFilter_new(freq, samples_per_second, feature) ==
    LET wanted == (4 * samples_per_second) \div freq
        len == IF wanted > 2 * samples_per_second THEN 2 * samples_per_second
               ELSE IF wanted < 2 THEN 2 ELSE wanted
    IN  [ samples |-> LoopBuffer_new((len + 1) \div 2, samples_per_second, feature),
          len     |-> len ]

\* The rolling sum over the whole padded storage.
RECURSIVE SumFrom(_, _)
SumFrom(data, i) ==
    IF i >= VecLen(data) THEN 0 ELSE data[i] + SumFrom(data, i + 1)

\* LowPassFilter::filter: the filter after the call and the returned value.
LowPassFilter_filter(self, sample) ==
    LET samples == LoopBuffer_advance(LoopBuffer_push(self.samples, sample))
        sum     == SumFrom(samples.data, 0)
    IN  [ self |-> [self EXCEPT !.samples = samples],
          out  |-> IF self.len % 2 # 0
                   THEN TDiv(2 * sum - samples.data[self.len \div 2], self.len)
                   ELSE TDiv(2 * sum, self.len) ]

(***************************************************************************)
(* Noise, gen.rs:68-94: a XorShiftRng seeded from the clock.  The model's  *)
(* generator has 16 states and the full period; a draw maps its state to   *)
(* the nearest of -1, 0 and 1.                                             *)
(***************************************************************************)
\* Noise::default() at a clock reading seed
Noise_default(seed) == [inner |-> seed % 16]

\* The Noise after next_u32().
Noise_next(self) == [inner |-> (5 * self.inner + 3) % 16]

\* next_u32() as f32 / (u32::MAX as f32 / 2.0) - 1.0, for the state the draw left
Noise_sample(self) == (4 * self.inner + 15) \div 30 - 1

(***************************************************************************)
(* Cylinder, gen.rs:110-173.  A pop or push of a waveguide is logged as an *)
(* event [op, part, dampened]; the generator adds the index of the         *)
(* cylinder or muffler element.                                            *)
(***************************************************************************)
PopEvent(part, popped) == [op |-> "pop", part |-> part, dampened |-> popped.dampened]

PushEvent(part) == [op |-> "push", part |-> part, dampened |-> FALSE]

\* Cylinder::pop: the cylinder after the call, the returned tuple
\* (intake, exhaust, piston + ignition, waveguide dampened) and the events.
Cylinder_pop(self, crank_pos, exhaust_collector, intake_valve_shift, exhaust_valve_shift) ==
    LET crank == Fract(crank_pos + self.crank_offset)
        cyl_sound == MulTrig(self.piston_motion_factor, piston_motion(crank))
                     + MulTrig(self.ignition_factor, fuel_ignition(crank, self.ignition_time))
        ex_valve == exhaust_valve(crank + exhaust_valve_shift)
        in_valve == intake_valve(crank + intake_valve_shift)
        ex_alpha == self.exhaust_closed_refl
                    + MulTrig(self.exhaust_open_refl - self.exhaust_closed_refl, ex_valve)
        in_alpha == self.intake_closed_refl
                    + MulTrig(self.intake_open_refl - self.intake_closed_refl, in_valve)
        ex_wg_ret == WaveGuide_pop([self.exhaust_waveguide EXCEPT !.alpha = ex_alpha])
        in_wg_ret == WaveGuide_pop([self.intake_waveguide EXCEPT !.alpha = in_alpha])
        extractor_wg_ret == WaveGuide_pop(self.extractor_waveguide)
    IN  [ self |-> [self EXCEPT
                      !.cyl_sound = cyl_sound,
                      !.exhaust_waveguide = ex_wg_ret.self,
                      !.intake_waveguide = in_wg_ret.self,
                      !.extractor_exhaust = extractor_wg_ret.alpha,
                      !.extractor_waveguide =
                          WaveGuide_push(extractor_wg_ret.self, ex_wg_ret.beta,
                                         exhaust_collector)],
          intake   |-> in_wg_ret.beta,
          exhaust  |-> extractor_wg_ret.beta,
          vib      |-> cyl_sound,
          dampened |-> ex_wg_ret.dampened \/ in_wg_ret.dampened \/ extractor_wg_ret.dampened,
          log      |-> << PopEvent("exhaust_waveguide", ex_wg_ret),
                          PopEvent("intake_waveguide", in_wg_ret),
                          PopEvent("extractor_waveguide", extractor_wg_ret),
                          PushEvent("extractor_waveguide") >> ]

\* A push that feeds the extractor waveguide as well, which Cylinder::pop has
\* already pushed.
Cylinder_push_with_extractor(self, intake) ==
    LET ex_in == TDiv((1 - Abs(self.exhaust_waveguide.alpha)) * self.cyl_sound, 2)
        in_in == TDiv((1 - Abs(self.intake_waveguide.alpha)) * self.cyl_sound, 2)
    IN  [ self |-> [self EXCEPT
                      !.exhaust_waveguide =
                          WaveGuide_push(self.exhaust_waveguide, ex_in, self.extractor_exhaust),
                      !.extractor_waveguide =
                          WaveGuide_push(self.extractor_waveguide, 0, 0),
                      !.intake_waveguide =
                          WaveGuide_push(self.intake_waveguide, in_in, intake)],
          log  |-> << PushEvent("exhaust_waveguide"), PushEvent("extractor_waveguide"),
                      PushEvent("intake_waveguide") >> ]

\* Cylinder::push: the cylinder after the call and the events.
Cylinder_push(self, intake) ==
    LET ex_in == TDiv((1 - Abs(self.exhaust_waveguide.alpha)) * self.cyl_sound, 2)
        in_in == TDiv((1 - Abs(self.intake_waveguide.alpha)) * self.cyl_sound, 2)
    IN  [ self |-> [self EXCEPT
                      !.exhaust_waveguide =
                          WaveGuide_push(self.exhaust_waveguide, ex_in, self.extractor_exhaust),
                      !.intake_waveguide =
                          WaveGuide_push(self.intake_waveguide, in_in, intake)],
          log  |-> << PushEvent("exhaust_waveguide"), PushEvent("intake_waveguide") >> ]

(***************************************************************************)
(* Generator, gen.rs:175-390.                                              *)
(***************************************************************************)
\* The events of the elements 0 .. n-1 of a Vec, in iteration order, each with
\* the index of its element.
RECURSIVE IndexedLog(_, _)
IndexedLog(logs, i) ==
    IF i >= VecLen(logs) THEN <<>>
    ELSE [e \in DOMAIN logs[i] |->
              [ index |-> i, op |-> logs[i][e].op, part |-> logs[i][e].part,
                dampened |-> logs[i][e].dampened ]]
         \o IndexedLog(logs, i + 1)

\* Generator::gen, gen.rs:325-337: the two noise draws and their filters.
\* Gives the generator and the locals intake_noise, last_exhaust_collector
\* and crankshaft_fluctuation_offset.
gen_draw(self) ==
    LET engine == self.engine
        drawn1 == Noise_next(engine.intake_noise)
        drawn2 == Noise_next(drawn1)
        intake_noise_lp == LowPassFilter_filter(engine.intake_noise_lp, Noise_sample(drawn1))
        crankshaft_fluctuation_lp ==
            LowPassFilter_filter(engine.crankshaft_fluctuation_lp, Noise_sample(drawn2))
    IN  [ self |-> [self EXCEPT
                      !.engine.intake_noise = drawn2,
                      !.engine.intake_noise_lp = intake_noise_lp.self,
                      !.engine.crankshaft_fluctuation_lp = crankshaft_fluctuation_lp.self,
                      !.engine.exhaust_collector = 0,
                      !.engine.intake_collector = 0],
          intake_noise |-> intake_noise_lp.out * engine.intake_noise_factor,
          last_exhaust_collector |->
              TDiv(engine.exhaust_collector, VecLen(engine.cylinders)),
          crankshaft_fluctuation_offset |-> crankshaft_fluctuation_lp.out ]

\* Generator::gen, gen.rs:339-366, after every pop: popped[c] is what
\* Cylinder::pop gave for cylinder c, muffler_popped[m] what WaveGuide::pop
\* gave for muffler element m.  Gives the locals of the push phase.
gen_popped(drawn, popped, straight_pipe_wg_ret, muffler_popped) ==
    [ self |-> [drawn.self EXCEPT
                  !.engine.cylinders = [c \in DOMAIN popped |-> popped[c].self],
                  !.engine.intake_collector =
                      SumFrom([c \in DOMAIN popped |-> popped[c].intake], 0),
                  !.engine.exhaust_collector =
                      SumFrom([c \in DOMAIN popped |-> popped[c].exhaust], 0),
                  !.engine.muffler.straight_pipe = straight_pipe_wg_ret.self,
                  !.engine.muffler.muffler_elements =
                      [m \in DOMAIN muffler_popped |-> muffler_popped[m].self]],
      intake_noise |-> drawn.intake_noise,
      engine_vibration |-> SumFrom([c \in DOMAIN popped |-> popped[c].vib], 0),
      cylinder_dampened |-> \E c \in DOMAIN popped : popped[c].dampened,
      straight_pipe_wg_ret |-> straight_pipe_wg_ret,
      muffler_wg_ret |->
          [ alpha    |-> SumFrom([m \in DOMAIN muffler_popped |-> muffler_popped[m].alpha], 0),
            beta     |-> SumFrom([m \in DOMAIN muffler_popped |-> muffler_popped[m].beta], 0),
            dampened |-> \E m \in DOMAIN muffler_popped : muffler_popped[m].dampened ],
      log |-> IndexedLog([c \in DOMAIN popped |-> popped[c].log], 0)
              \o IndexedLog((0 :> <<PopEvent("straight_pipe", straight_pipe_wg_ret)>>), 0)
              \o IndexedLog([m \in DOMAIN muffler_popped |->
                                <<PopEvent("muffler_element", muffler_popped[m])>>], 0) ]

\* Generator::gen, gen.rs:339-366: the pop phase.
gen_pop(drawn) ==
    gen_popped(
        drawn,
        [c \in DOMAIN drawn.self.engine.cylinders |->
            Cylinder_pop(drawn.self.engine.cylinders[c],
                         drawn.self.engine.crankshaft_pos
                           + drawn.self.engine.crankshaft_fluctuation
                             * drawn.crankshaft_fluctuation_offset,
                         drawn.last_exhaust_collector,
                         drawn.self.engine.intake_valve_shift,
                         drawn.self.engine.exhaust_valve_shift)],
        WaveGuide_pop(drawn.self.engine.muffler.straight_pipe),
        [m \in DOMAIN drawn.self.engine.muffler.muffler_elements |->
            WaveGuide_pop(drawn.self.engine.muffler.muffler_elements[m])])

\* Generator::gen, gen.rs:387-389, after every push: pushed[c] is what
\* Cylinder::push gave for cylinder c.  Gives the generator after gen, the
\* returned tuple (intake, engine vibrations, exhaust, waveguides dampened)
\* and the events of the sample in execution order.
gen_pushed(p, pushed, engine_vibration_filter) ==
    [ self |-> [p.self EXCEPT
                  !.engine.cylinders = [c \in DOMAIN pushed |-> pushed[c].self],
                  !.engine.muffler.straight_pipe =
                      WaveGuide_push(p.self.engine.muffler.straight_pipe,
                                     p.self.engine.exhaust_collector,
                                     p.muffler_wg_ret.alpha),
                  !.engine.exhaust_collector =
                      p.self.engine.exhaust_collector + p.straight_pipe_wg_ret.alpha,
                  !.engine.muffler.muffler_elements =
                      [m \in DOMAIN p.self.engine.muffler.muffler_elements |->
                          WaveGuide_push(p.self.engine.muffler.muffler_elements[m],
                                         TDiv(p.straight_pipe_wg_ret.beta,
                                              VecLen(p.self.engine.muffler.muffler_elements)),
                                         0)],
                  !.engine.engine_vibration_filter = engine_vibration_filter.self],
      intake   |-> p.self.engine.intake_collector,
      vib      |-> engine_vibration_filter.out,
      exhaust  |-> p.muffler_wg_ret.beta,
      dampened |-> p.straight_pipe_wg_ret.dampened \/ p.cylinder_dampened,
      log      |-> p.log
                   \o IndexedLog([c \in DOMAIN pushed |-> pushed[c].log], 0)
                   \o IndexedLog((0 :> <<PushEvent("straight_pipe")>>), 0)
                   \o IndexedLog([m \in DOMAIN p.self.engine.muffler.muffler_elements |->
                                     <<PushEvent("muffler_element")>>], 0) ]

\* Generator::gen, gen.rs:372-389: the push phase.
gen_push(p) ==
    gen_pushed(
        p,
        [c \in DOMAIN p.self.engine.cylinders |->
            Cylinder_push(p.self.engine.cylinders[c],
                          TDiv(p.self.engine.intake_collector,
                               VecLen(p.self.engine.cylinders))
                            + MulTrig(p.intake_noise,
                                      intake_valve(Fract(p.self.engine.crankshaft_pos
                                          + p.self.engine.cylinders[c].crank_offset))))],
        LowPassFilter_filter(p.self.engine.engine_vibration_filter, p.engine_vibration))

\* Generator::gen: one sample.
gen(self) == gen_push(gen_pop(gen_draw(self)))

\* Generator::new(samples_per_second, engine, dc_lp).  The volume counts
\* tenths; the gui_graph holds two callbacks of the longest buffer.
Generator_new(samples_per_second, engine, dc_lp) ==
    [ sampler_duty |-> 0,
      recorder     |-> "None",
      gui_graph    |-> ZeroVec(2 * MaxBuf),
      volume       |-> 1,
      samples_per_second |-> samples_per_second,
      engine       |-> engine,
      dc_lp        |-> dc_lp,
      waveguides_dampened |-> FALSE,
      recording_currently_clipping |-> FALSE ]

\* The body of the while loop of Generator::generate, gen.rs:217-222, for
\* the tuple samples that gen returned.  st is [self, buf, log].
generate_sample(st, ii, samples) ==
    LET self == samples.self
        sample == TDiv((samples.intake * self.engine.intake_volume
                        + samples.vib * self.engine.engine_vibrations_volume
                        + samples.exhaust * self.engine.exhaust_volume) * self.volume, 10)
        dc_lp == LowPassFilter_filter(self.dc_lp, sample)
    IN  [ self |-> [self EXCEPT
                      !.waveguides_dampened = self.waveguides_dampened \/ samples.dampened,
                      !.dc_lp = dc_lp.self],
          buf  |-> [st.buf EXCEPT ![ii] = sample - dc_lp.out],
          log  |-> Append(st.log, samples.log) ]

\* gen.rs:215: the crankshaft position of sample ii, from the position
\* crankshaft_pos read before the loop.
generate_position(self, crankshaft_pos, ii) ==
    [self EXCEPT !.engine.crankshaft_pos =
        Fract(crankshaft_pos
              + TDiv((ii + 1) * self.engine.rpm * CrankOne, self.samples_per_second * 120))]

\* The while loop of Generator::generate, gen.rs:214-226, from index ii on.
RECURSIVE generate_loop(_, _, _)
generate_loop(st, crankshaft_pos, ii) ==
    IF ii >= VecLen(st.buf) THEN st
    ELSE generate_loop(
             generate_sample(st, ii, gen(generate_position(st.self, crankshaft_pos, ii))),
             crankshaft_pos, ii + 1)

\* gen.rs:237-238: the buffer is copied to the gui_graph.
generate_graph(done) ==
    [ self |-> [done.self EXCEPT !.gui_graph = done.buf],
      buf  |-> done.buf,
      log  |-> done.log ]

\* Generator::generate(buf) on a buffer of len samples, for a generator with
\* no recorder attached: the generator after the call, the filled buffer and,
\* per sample, the events.
generate(self, len) ==
    generate_graph(
        generate_loop(
            [ self |-> [self EXCEPT !.recording_currently_clipping = FALSE,
                                    !.waveguides_dampened = FALSE],
              buf  |-> ZeroVec(len),
              log  |-> <<>> ],
            self.engine.crankshaft_pos, 0))

\* data.iter_mut().for_each(|sample| *sample = 0.0) on the data of a LoopBuffer
ZeroData(samples) == [samples EXCEPT !.data = ZeroVec(VecLen(samples.data))]

\* A reset that rebuilds a waveguide instead of zeroing its samples, which
\* loses the two reflectivities.
ZeroChambers_rebuilt(waveguide) ==
    [waveguide EXCEPT !.chamber0.samples = ZeroData(waveguide.chamber0.samples),
                      !.chamber1.samples = ZeroData(waveguide.chamber1.samples),
                      !.alpha = 0,
                      !.beta = 0]

\* The same on both chambers of a waveguide.
ZeroChambers(waveguide) ==
    [waveguide EXCEPT !.chamber0.samples = ZeroData(waveguide.chamber0.samples),
                      !.chamber1.samples = ZeroData(waveguide.chamber1.samples)]

\* Generator::reset
reset(self) ==
    [self EXCEPT
       !.engine.cylinders =
           [c \in DOMAIN self.engine.cylinders |->
               [self.engine.cylinders[c] EXCEPT
                  !.exhaust_waveguide = ZeroChambers(self.engine.cylinders[c].exhaust_waveguide),
                  !.intake_waveguide = ZeroChambers(self.engine.cylinders[c].intake_waveguide),
                  !.extractor_waveguide =
                      ZeroChambers(self.engine.cylinders[c].extractor_waveguide),
                  !.extractor_exhaust = 0,
                  !.cyl_sound = 0]],
       !.engine.muffler.straight_pipe = ZeroChambers(self.engine.muffler.straight_pipe),
       !.engine.engine_vibration_filter.samples =
           ZeroData(ZeroData(self.engine.engine_vibration_filter.samples)),
       !.engine.crankshaft_fluctuation_lp.samples =
           ZeroData(ZeroData(self.engine.crankshaft_fluctuation_lp.samples)),
       !.engine.muffler.muffler_elements =
           [m \in DOMAIN self.engine.muffler.muffler_elements |->
               ZeroChambers(self.engine.muffler.muffler_elements[m])],
       !.engine.exhaust_collector = 0,
       !.engine.intake_collector = 0]

(***************************************************************************)
(* Loading an engine, utils.rs:26-91.  A config gives every delay as a     *)
(* fraction of a second, Seconds(samples, rate).                           *)
(***************************************************************************)
\* fix_lpf: len = (delay * sample_rate).min(sample_rate).max(1.0), in half samples
fix_lpf(delay, sample_rate, feature) ==
    LET wanted == (2 * delay.samples * sample_rate) \div delay.rate
        len == IF wanted > 2 * sample_rate THEN 2 * sample_rate
               ELSE IF wanted < 2 THEN 2 ELSE wanted
    IN  [ samples |-> LoopBuffer_new((len + 1) \div 2, sample_rate, feature),
          delay   |-> delay,
          len     |-> len ]

\* fix_loop_buffer: len = (delay * sample_rate) as usize
fix_loop_buffer(delay, sample_rate, feature) ==
    LET len == AsUsize(delay.samples * sample_rate, delay.rate)
    IN  [ delay |-> delay,
          len   |-> len,
          data  |-> ZeroVec(get_best_simd_size(len, feature)),
          pos   |-> 0 ]

\* A deserialized WaveGuide after fix_engine; c1_out and c0_out are #[serde(skip)].
fix_waveguide(delay, alpha, beta, sample_rate, feature) ==
    [ chamber0 |-> [samples |-> fix_loop_buffer(delay, sample_rate, feature)],
      chamber1 |-> [samples |-> fix_loop_buffer(delay, sample_rate, feature)],
      alpha    |-> alpha,
      beta     |-> beta,
      c1_out   |-> 0,
      c0_out   |-> 0 ]

\* The engine of a config file after ron::de::from_reader and fix_engine.
\* Cylinder c of n has crank offset c / n; the running values are
\* #[serde(skip)] and start at their default, 0.
load_engine(config, sample_rate, feature) ==
    LET delay == Seconds(2, SampleRate)
        lpf_delay == Seconds(3, 2 * SampleRate)
    IN  [ rpm |-> config.rpm,
          intake_volume  |-> 1,
          exhaust_volume |-> 1,
          engine_vibrations_volume |-> 1,
          cylinders |->
              [c \in 0..(config.cylinders - 1) |->
                  [ crank_offset |-> c * (CrankOne \div config.cylinders),
                    exhaust_waveguide   |-> fix_waveguide(delay, 0, 0, sample_rate, feature),
                    intake_waveguide    |-> fix_waveguide(delay, 0, 0, sample_rate, feature),
                    extractor_waveguide |-> fix_waveguide(delay, 0, 0, sample_rate, feature),
                    intake_open_refl    |-> 0,
                    intake_closed_refl  |-> 1,
                    exhaust_open_refl   |-> 0,
                    exhaust_closed_refl |-> config.exhaust_closed_refl,
                    piston_motion_factor |-> 40,
                    ignition_factor |-> 20,
                    ignition_time   |-> 2,
                    cyl_sound         |-> 0,
                    extractor_exhaust |-> 0 ]],
          intake_noise |-> Noise_default(config.seed),
          intake_noise_factor |-> config.noise,
          intake_noise_lp |-> fix_lpf(lpf_delay, sample_rate, feature),
          engine_vibration_filter |-> fix_lpf(lpf_delay, sample_rate, feature),
          muffler |->
              [ straight_pipe |-> fix_waveguide(delay, 0, 0, sample_rate, feature),
                muffler_elements |->
                    [m \in 0..(config.muffler_elements - 1) |->
                        fix_waveguide(delay, config.muffler_refl, config.muffler_refl,
                                      sample_rate, feature)] ],
          intake_valve_shift  |-> 0,
          exhaust_valve_shift |-> 1,
          crankshaft_fluctuation |-> config.noise,
          crankshaft_fluctuation_lp |-> fix_lpf(lpf_delay, sample_rate, feature),
          crankshaft_pos    |-> 0,
          exhaust_collector |-> 0,
          intake_collector  |-> 0 ]

\* main.rs:66-95: load the engine, build the generator with a DC filter of
\* 0.5 Hz (one half hertz) and set the volume from the command line (1.0).
NewGenerator(config, feature) ==
    [ Generator_new(SampleRate, load_engine(config, SampleRate, feature),
                    LowPassFilter_new(1, SampleRate, feature))
      EXCEPT !.volume = 10 ]

(***************************************************************************)
(* A generator driven by its audio thread (generate) and by the GUI's      *)
(* reset button.                                                           *)
(***************************************************************************)
\* What the clock reads when Noise::default() seeds the noise generator.
ClockReadings == {11}

\* The engine configs the generator is started with; seed is the clock reading
\* at load time.
EngineConfigs ==
    [ rpm : {0, 15 * SampleRate},
      cylinders : 1..MaxCylinders,
      muffler_elements : 1..MaxMufflerElements,
      muffler_refl : {0, 1},
      exhaust_closed_refl : {0, 1},
      noise : {0, 1},
      seed : ClockReadings ]

GenInit ==
    /\ cpu = "sse2"
    /\ AudioIdle
    /\ MainIdle
    /\ EngIdle
    /\ WgIdle /\ CylIdle /\ XfIdle
    /\ LoopIdle /\ StreamIdle /\ RecIdle
    /\ gen_config \in EngineConfigs
    /\ generator = NewGenerator(gen_config, cpu)
    /\ buf = <<>>
    /\ gen_log = <<>>
    /\ gen_samples = 0
    /\ gen_resets = 0
    /\ gen_op = "new"

\* The audio thread calls generate on a buffer of len samples.
Generate ==
    /\ \E len \in 1..MaxBuf :
         /\ gen_samples + len <= MaxSamples
         /\ \E ret \in {generate(generator, len)} :
              /\ generator' = ret.self
              /\ buf' = ret.buf
              /\ gen_log' = ret.log
         /\ gen_samples' = gen_samples + len
    /\ gen_op' = "generate"
    /\ UNCHANGED <<gen_config, gen_resets>>
    /\ UNCHANGED not_gen_vars

\* The GUI's reset button.
Reset ==
    /\ gen_op = "generate"
    /\ gen_resets < MaxResets
    /\ generator' = reset(generator)
    /\ gen_resets' = gen_resets + 1
    /\ gen_op' = "reset"
    /\ UNCHANGED <<gen_config, buf, gen_log, gen_samples>>
    /\ UNCHANGED not_gen_vars

Next == Generate \/ Reset

Spec == GenInit /\ [][Next]_vars

(***************************************************************************)
(* A DelayLine driven by a caller: any sequence of push, pop and advance.  *)
(***************************************************************************)
LoopInit ==
    /\ cpu \in CpuFeatures
    /\ AudioIdle
    /\ MainIdle
    /\ EngIdle
    /\ WgIdle /\ CylIdle /\ XfIdle
    /\ StreamIdle
    /\ RecIdle
    /\ GenIdle
    /\ \E len \in 1..MaxLen : lb = DelayLine_new(len, SampleRate, cpu)
    /\ lb_trace = <<>>

LoopPush ==
    /\ Len(lb_trace) < MaxOps
    /\ \E v \in PushValues :
         /\ lb' = DelayLine_push(lb, v)
         /\ lb_trace' = Append(lb_trace, [op |-> "push", value |-> v])
    /\ UNCHANGED not_loop_vars

LoopAdvance ==
    /\ Len(lb_trace) < MaxOps
    /\ lb' = [lb EXCEPT !.samples = LoopBuffer_advance(lb.samples)]
    /\ lb_trace' = Append(lb_trace, [op |-> "advance", value |-> 0])
    /\ UNCHANGED not_loop_vars

LoopPop ==
    /\ Len(lb_trace) < MaxOps
    /\ lb_trace' = Append(lb_trace, [op |-> "pop", value |-> DelayLine_pop(lb)])
    /\ UNCHANGED <<lb, not_loop_vars>>

LoopNext == LoopPush \/ LoopAdvance \/ LoopPop

SpecLoopBuffer == LoopInit /\ [][LoopNext]_vars

(***************************************************************************)
(* ExactStreamer<T>, exactstreamer.rs:1-56 (audio.rs:86-143 is the same    *)
(* code with recv().expect(..) in place of recv()?).  A Vec<T> or slice is *)
(* a function over 0..n-1.                                                 *)
(***************************************************************************)
\* The elements of a Vec, first to last, as a sequence.
VecToSeq(v) == [k \in 1..VecLen(v) |-> v[k - 1]]

\* dst[at..at+n].copy_from_slice(&src[from..from+n])
copy_from_slice(dst, at, src, from, n) ==
    [k \in DOMAIN dst |-> IF at <= k /\ k < at + n THEN src[from + (k - at)] ELSE dst[k]]

\* vec.copy_within(from..to, 0)
copy_within(vec, from, to) == copy_from_slice(vec, 0, vec, from, to - from)

\* vec.extend(repeat(T::default()).take(n))
extend_default(vec, n) ==
    [k \in 0..(VecLen(vec) + n - 1) |-> IF k < VecLen(vec) THEN vec[k] ELSE 0]

\* ExactStreamer::new(remainder_buffer_size, receiver)
ExactStreamer_new(remainder_buffer_size) ==
    [remainder |-> ZeroVec(remainder_buffer_size), remainder_len |-> 0]

\* A fill that serves out from the remainder and leaves the unread rest of
\* the remainder where it was.
fill_from_remainder_no_move(self, out) ==
    LET i == Min(self.remainder_len, VecLen(out))
    IN  [ out  |-> copy_from_slice(out, 0, self.remainder, 0, i),
          self |-> [self EXCEPT !.remainder_len = self.remainder_len - i],
          i    |-> i ]

\* ExactStreamer::fill, lines 23-29: serve out from the remainder and move
\* the unread rest of the remainder to index 0.
fill_from_remainder(self, out) ==
    LET i == Min(self.remainder_len, VecLen(out))
    IN  [ out  |-> copy_from_slice(out, 0, self.remainder, 0, i),
          self |-> [self EXCEPT !.remainder = copy_within(self.remainder, i, self.remainder_len),
                                !.remainder_len = self.remainder_len - i],
          i    |-> i ]

\* A pass of the loop body that never grows the remainder buffer.
fill_take_batch_no_grow(self, out, i, generated) ==
    IF VecLen(generated) > VecLen(out) - i
    THEN [ out    |-> copy_from_slice(out, i, generated, 0, VecLen(out) - i),
           self   |-> [ remainder     |-> copy_from_slice(self.remainder, 0, generated,
                                                          VecLen(out) - i,
                                                          Min(VecLen(self.remainder),
                                                              VecLen(generated) - (VecLen(out) - i))),
                        remainder_len |-> VecLen(generated) - (VecLen(out) - i) ],
           i      |-> i,
           break_ |-> TRUE ]
    ELSE [ out    |-> copy_from_slice(out, i, generated, 0, VecLen(generated)),
           self   |-> self,
           i      |-> i + VecLen(generated),
           break_ |-> FALSE ]

\* ExactStreamer::fill, lines 34-51: one pass of the loop body with the
\* batch generated that receiver.recv() returned.  break_ is the break.
fill_take_batch(self, out, i, generated) ==
    IF VecLen(generated) > VecLen(out) - i
    THEN LET left          == VecLen(out) - i
             remainder_len == VecLen(generated) - left
             vec_len       == VecLen(self.remainder)
             grown         == IF vec_len < remainder_len
                              THEN extend_default(self.remainder, remainder_len - vec_len)
                              ELSE self.remainder
         IN  [ out    |-> copy_from_slice(out, i, generated, 0, left),
               self   |-> [ remainder     |-> copy_from_slice(grown, 0, generated, left,
                                                              remainder_len),
                            remainder_len |-> remainder_len ],
               i      |-> i,
               break_ |-> TRUE ]
    ELSE [ out    |-> copy_from_slice(out, i, generated, 0, VecLen(generated)),
           self   |-> self,
           i      |-> i + VecLen(generated),
           break_ |-> FALSE ]

\* What the caller's out slice holds before the call: no element ever sent.
Stale(n) == [k \in 0..(n - 1) |-> -1]

\* The producer sends the elements 1, 2, 3, ... so that every element sent
\* is distinct.
NewBatch(n) == [k \in 0..(n - 1) |-> Len(sent) + 1 + k]

StreamInit ==
    /\ cpu = "scalar"
    /\ AudioIdle
    /\ MainIdle
    /\ EngIdle
    /\ WgIdle /\ CylIdle /\ XfIdle
    /\ LoopIdle
    /\ RecIdle
    /\ GenIdle
    /\ \E size \in 0..MaxRemainder : streamer = ExactStreamer_new(size)
    /\ channel = <<>>
    /\ sender_alive = TRUE
    /\ sent = <<>>
    /\ fill_pc = "idle"
    /\ fill_out = <<>>
    /\ fill_i = 0
    /\ fill_result = "none"
    /\ fill_failed = FALSE
    /\ fill_received = <<>>
    /\ delivered = <<>>

\* sender.send(batch) on the producer's side.
StreamSend ==
    /\ sender_alive
    /\ Len(channel) < MaxQueued
    /\ \E n \in 0..MaxBatch :
         /\ Len(sent) + n <= MaxSent
         /\ channel' = Append(channel, NewBatch(n))
         /\ sent' = sent \o VecToSeq(NewBatch(n))
    /\ UNCHANGED <<streamer, sender_alive, fill_pc, fill_out, fill_i, fill_result,
                   fill_failed, fill_received, delivered, not_stream_vars>>

\* The Sender is dropped.
StreamDropSender ==
    /\ sender_alive
    /\ sender_alive' = FALSE
    /\ UNCHANGED <<streamer, channel, sent, fill_pc, fill_out, fill_i, fill_result,
                   fill_failed, fill_received, delivered, not_stream_vars>>

\* fill returns Ok(()) with the out slice out.
FillReturnOk(out) ==
    /\ fill_pc' = "idle"
    /\ fill_result' = "ok"
    /\ delivered' = delivered \o VecToSeq(out)

\* A fill that waits for a batch even when the remainder has filled out.
FillCall_always_receives ==
    /\ fill_pc = "idle"
    /\ \E n \in 0..MaxOut :
         LET r == fill_from_remainder(streamer, Stale(n))
         IN  /\ streamer' = r.self
             /\ fill_out' = r.out
             /\ fill_i' = r.i
             /\ fill_pc' = "recv" /\ UNCHANGED <<fill_result, delivered>>
    /\ UNCHANGED <<channel, sender_alive, sent, fill_failed, fill_received, not_stream_vars>>

\* fill(out) is called and runs up to its first receiver.recv(), or to its
\* end when the remainder already fills out.
FillCall ==
    /\ fill_pc = "idle"
    /\ \E n \in 0..MaxOut :
         LET r == fill_from_remainder(streamer, Stale(n))
         IN  /\ streamer' = r.self
             /\ fill_out' = r.out
             /\ fill_i' = r.i
             /\ IF r.i < n
                THEN fill_pc' = "recv" /\ UNCHANGED <<fill_result, delivered>>
                ELSE FillReturnOk(r.out)
    /\ UNCHANGED <<channel, sender_alive, sent, fill_failed, fill_received, not_stream_vars>>

\* receiver.recv() returns a batch; fill runs on to its next recv() or to
\* its end.
FillRecv ==
    /\ fill_pc = "recv"
    /\ channel # <<>>
    /\ LET r == fill_take_batch(streamer, fill_out, fill_i, Head(channel))
       IN  /\ streamer' = r.self
           /\ fill_out' = r.out
           /\ fill_i' = r.i
           /\ IF r.break_ \/ ~(r.i < VecLen(fill_out))
              THEN FillReturnOk(r.out)
              ELSE UNCHANGED <<fill_pc, fill_result, delivered>>
    /\ channel' = Tail(channel)
    /\ fill_received' = <<Head(channel)>>
    /\ UNCHANGED <<sender_alive, sent, fill_failed, not_stream_vars>>

\* A fill that gives up on an empty channel, as try_recv would.
FillDisconnected_on_empty ==
    /\ fill_pc = "recv"
    /\ channel = <<>>
    /\ fill_pc' = "idle"
    /\ fill_result' = "err"
    /\ fill_failed' = TRUE
    /\ UNCHANGED <<streamer, channel, sender_alive, sent, fill_out, fill_i, delivered,
                   fill_received, not_stream_vars>>

\* receiver.recv() fails, the channel being empty and disconnected: the `?`
\* returns the RecvError.
FillDisconnected ==
    /\ fill_pc = "recv"
    /\ channel = <<>>
    /\ ~sender_alive
    /\ fill_pc' = "idle"
    /\ fill_result' = "err"
    /\ fill_failed' = TRUE
    /\ UNCHANGED <<streamer, channel, sender_alive, sent, fill_out, fill_i, delivered,
                   fill_received, not_stream_vars>>

StreamNext ==
    StreamSend \/ StreamDropSender \/ FillCall \/ FillRecv \/ FillDisconnected

SpecStreamer == StreamInit /\ [][StreamNext]_vars

(***************************************************************************)
(* Recorder, recorder.rs:13-125.  One thread owns the Recorder and calls   *)
(* record, stop and stop_wait (record takes &mut self, so no two calls     *)
(* overlap); the worker thread spawned by start runs beside it.  An f32    *)
(* sample is an integer, 1 standing for full scale 1.0.                    *)
(***************************************************************************)
\* std::i16::MAX, recorder.rs:63
I16_MAX == 32767

\* (sample.max(-1.0).min(1.0) * f32::from(std::i16::MAX)) as i16
ToI16(sample) ==
    (IF sample < -1 THEN -1 ELSE IF sample > 1 THEN 1 ELSE sample) * I16_MAX

\* samples.iter().for_each(|sample| wav_writer.write_sample(..))
write_samples(file, samples) ==
    [file EXCEPT !.samples = file.samples \o [k \in 1..VecLen(samples) |-> ToI16(samples[k - 1])]]

\* The batches the owner records.
RecordBatches == { <<>>, (0 :> 1), (0 :> -1 @@ 1 :> 2) }

\* Recorder::new, with the worker thread spawned by start and not yet run.
RecInit ==
    /\ cpu = "scalar"
    /\ AudioIdle
    /\ MainIdle
    /\ EngIdle
    /\ WgIdle /\ CylIdle /\ XfIdle
    /\ LoopIdle
    /\ StreamIdle
    /\ GenIdle
    /\ recorder = [len |-> 0, running |-> TRUE, block_lock |-> "free"]
    /\ rec_channel = <<>>
    /\ rec_receiver = TRUE
    /\ worker_pc = "spawned"
    /\ wav = [samples |-> <<>>, flushed |-> FALSE]
    /\ caller_pc = "idle"
    /\ enqueued = <<>>
    /\ last_record = [called |-> FALSE, running |-> FALSE, sent |-> FALSE]
    /\ stop_wait_returned = FALSE
    /\ stopped_at = "never"

\* A record that sends without asking is_running().
Recorder_record_while_stopped(samples) ==
    /\ caller_pc = "idle"
    /\ recorder' = [recorder EXCEPT !.len = recorder.len + VecLen(samples)]
    /\ IF rec_receiver
       THEN /\ rec_channel' = Append(rec_channel, samples)
            /\ enqueued' = enqueued \o VecToSeq(samples)
            /\ caller_pc' = "idle"
       ELSE /\ caller_pc' = "panicked"
            /\ UNCHANGED <<rec_channel, enqueued>>
    /\ last_record' = [called |-> TRUE, running |-> recorder.running, sent |-> rec_receiver]
    /\ UNCHANGED <<rec_receiver, worker_pc, wav, stop_wait_returned, stopped_at, not_rec_vars>>

\* Recorder::record(samples): if is_running(), len += samples.len() and
\* sender.send(samples).unwrap(), which panics once the Receiver is dropped.
Recorder_record(samples) ==
    /\ caller_pc = "idle"
    /\ IF recorder.running
       THEN /\ recorder' = [recorder EXCEPT !.len = recorder.len + VecLen(samples)]
            /\ IF rec_receiver
               THEN /\ rec_channel' = Append(rec_channel, samples)
                    /\ enqueued' = enqueued \o VecToSeq(samples)
                    /\ caller_pc' = "idle"
               ELSE /\ caller_pc' = "panicked"
                    /\ UNCHANGED <<rec_channel, enqueued>>
       ELSE UNCHANGED <<recorder, rec_channel, enqueued, caller_pc>>
    /\ last_record' = [called  |-> TRUE,
                       running |-> recorder.running,
                       sent    |-> recorder.running /\ rec_receiver]
    /\ UNCHANGED <<rec_receiver, worker_pc, wav, stop_wait_returned, stopped_at, not_rec_vars>>

Record ==
    /\ recorder.len < MaxRecorded
    /\ Len(rec_channel) < MaxRecQueued
    /\ \E samples \in RecordBatches : Recorder_record(samples)

\* Where the worker is at the first stop, stop_wait or drop of the Recorder.
StoppedAt == IF stopped_at = "never" THEN worker_pc ELSE stopped_at

\* Recorder::stop
Recorder_stop ==
    /\ caller_pc = "idle"
    /\ recorder.running
    /\ recorder' = [recorder EXCEPT !.running = FALSE]
    /\ stopped_at' = StoppedAt
    /\ UNCHANGED <<rec_channel, rec_receiver, worker_pc, wav, caller_pc, enqueued,
                   last_record, stop_wait_returned, not_rec_vars>>

\* Recorder::stop_wait, line 119: running.store(false)
StopWaitCall ==
    /\ caller_pc = "idle"
    /\ ~stop_wait_returned
    /\ recorder' = [recorder EXCEPT !.running = FALSE]
    /\ caller_pc' = "spin"
    /\ stopped_at' = StoppedAt
    /\ UNCHANGED <<rec_channel, rec_receiver, worker_pc, wav, enqueued, last_record,
                   stop_wait_returned, not_rec_vars>>

\* The owner drops the Recorder (gui.rs:313, generator.recorder = None, or the
\* end of main): its Sender is dropped; running is left as it was, the
\* Recorder having no Drop of its own.
RecorderDrop ==
    /\ caller_pc = "idle"
    /\ caller_pc' = "dropped"
    /\ stopped_at' = StoppedAt
    /\ UNCHANGED <<recorder, rec_channel, rec_receiver, worker_pc, wav, enqueued,
                   last_record, stop_wait_returned, not_rec_vars>>

\* Recorder::stop_wait, line 121: while !self.sender.is_empty() {} ends.
StopWaitSpinEnds ==
    /\ caller_pc = "spin"
    /\ rec_channel = <<>>
    /\ caller_pc' = "lock"
    /\ UNCHANGED <<recorder, rec_channel, rec_receiver, worker_pc, wav, enqueued,
                   last_record, stop_wait_returned, stopped_at, not_rec_vars>>

\* Recorder::stop_wait, line 123: let _ = self.block_lock.lock() takes the
\* lock and drops the guard at once; stop_wait returns.
StopWaitLock ==
    /\ caller_pc = "lock"
    /\ recorder.block_lock = "free"
    /\ caller_pc' = "idle"
    /\ stop_wait_returned' = TRUE
    /\ UNCHANGED <<recorder, rec_channel, rec_receiver, worker_pc, wav, enqueued,
                   last_record, stopped_at, not_rec_vars>>

\* The worker starts: block_lock.lock(), lines 40-55 (the WAV is created).
WorkerStart ==
    /\ worker_pc = "spawned"
    /\ recorder.block_lock = "free"
    /\ recorder' = [recorder EXCEPT !.block_lock = "worker"]
    /\ worker_pc' = "loop"
    /\ UNCHANGED <<rec_channel, rec_receiver, wav, caller_pc, enqueued, last_record,
                   stop_wait_returned, stopped_at, not_rec_vars>>

\* Line 57: while running.load(Ordering::Relaxed)
WorkerLoopTest ==
    /\ worker_pc = "loop"
    /\ worker_pc' = IF recorder.running THEN "recv" ELSE "drain"
    /\ UNCHANGED <<recorder, rec_channel, rec_receiver, wav, caller_pc, enqueued,
                   last_record, stop_wait_returned, stopped_at, not_rec_vars>>

\* Lines 58-68: recv_timeout returns Ok(samples); they are written.
WorkerRecv ==
    /\ worker_pc = "recv"
    /\ rec_channel # <<>>
    /\ wav' = write_samples(wav, Head(rec_channel))
    /\ rec_channel' = Tail(rec_channel)
    /\ worker_pc' = "loop"
    /\ UNCHANGED <<recorder, rec_receiver, caller_pc, enqueued, last_record,
                   stop_wait_returned, stopped_at, not_rec_vars>>

\* Lines 58, 69: recv_timeout returns Err, after 4 s without a batch or at
\* once when the Sender is dropped and nothing is queued: break.
WorkerRecvTimeout ==
    /\ worker_pc = "recv"
    /\ rec_channel = <<>>
    /\ worker_pc' = "drain"
    /\ UNCHANGED <<recorder, rec_channel, rec_receiver, wav, caller_pc, enqueued,
                   last_record, stop_wait_returned, stopped_at, not_rec_vars>>

\* Lines 75-83: while let Ok(samples) = recv.try_recv(): one pass, or the end
\* of the loop when the channel is empty.
WorkerDrain ==
    /\ worker_pc = "drain"
    /\ IF rec_channel # <<>>
       THEN /\ wav' = write_samples(wav, Head(rec_channel))
            /\ rec_channel' = Tail(rec_channel)
            /\ UNCHANGED worker_pc
       ELSE /\ worker_pc' = "flush"
            /\ UNCHANGED <<wav, rec_channel>>
    /\ UNCHANGED <<recorder, rec_receiver, caller_pc, enqueued, last_record,
                   stop_wait_returned, stopped_at, not_rec_vars>>

\* Line 85: wav_writer.flush()
WorkerFlush ==
    /\ worker_pc = "flush"
    /\ wav' = [wav EXCEPT !.flushed = TRUE]
    /\ worker_pc' = "exit"
    /\ UNCHANGED <<recorder, rec_channel, rec_receiver, caller_pc, enqueued, last_record,
                   stop_wait_returned, stopped_at, not_rec_vars>>

\* Lines 94-95: drop(lock); the closure ends and drops the Receiver, and
\* with it whatever is still queued.
WorkerExit ==
    /\ worker_pc = "exit"
    /\ recorder' = [recorder EXCEPT !.block_lock = "free"]
    /\ rec_receiver' = FALSE
    /\ rec_channel' = <<>>
    /\ worker_pc' = "done"
    /\ UNCHANGED <<wav, caller_pc, enqueued, last_record, stop_wait_returned,
                   stopped_at, not_rec_vars>>

RecNext ==
    \/ Record \/ Recorder_stop \/ StopWaitCall \/ StopWaitSpinEnds \/ StopWaitLock
    \/ RecorderDrop
    \/ WorkerStart \/ WorkerLoopTest \/ WorkerRecv \/ WorkerRecvTimeout \/ WorkerDrain
    \/ WorkerFlush \/ WorkerExit

SpecRecorder == RecInit /\ [][RecNext]_vars

\* The worker is a thread of its own, which the scheduler runs, and each of
\* its blocking calls returns: lock() once the lock is free, recv_timeout
\* with a batch or after its 4 s.
RecWorker ==
    \/ WorkerStart \/ WorkerLoopTest \/ WorkerRecv \/ WorkerRecvTimeout \/ WorkerDrain
    \/ WorkerFlush \/ WorkerExit

SpecRecorderLive == RecInit /\ [][RecNext]_vars /\ WF_vars(RecWorker)

(***************************************************************************)
(* The audio stream of the GUI build, audio.rs:9-156, with the threads    *)
(* that share the Generator: the generator worker spawned by audio::init,  *)
(* the audio callback (StreamingPlayer), the FFT thread (fft.rs:25-53) and *)
(* the main thread running the GUI (main.rs:167-305, gui.rs:285-352).  A   *)
(* buffer in a channel is its length; the Generator is its parameters, and *)
(* a generated sample is the parameters it was computed from.              *)
(***************************************************************************)
\* audio.rs:9-10
GENERATOR_BUFFER_SIZE == 256
GENERATOR_CHANNEL_SIZE == 6
\* gui.rs:14
WATERFALL_WIDTH == 512

\* The two consumers of the worker's buffers, each with an ExactStreamer.
Consumers == {"player", "fft"}

\* The lengths of the out slice the audio device hands to the callback.
CallbackSizes == {GENERATOR_BUFFER_SIZE \div 2, 2 * GENERATOR_BUFFER_SIZE}

\* The out slice of a consumer's fill call: FFTStreamer::run fills a buffer
\* of its size, WATERFALL_WIDTH * 2 (main.rs:181).
OutSizes(c) == IF c = "fft" THEN {WATERFALL_WIDTH * 2} ELSE CallbackSizes

\* Whether the consumer's Receiver still exists.
ReceiverAlive(c) == consumer[c].pc \in {"idle", "recv", "send"}

\* Whether the worker's Senders still exist.
SendersAlive == worker.pc # "done"

\* audio::ExactStreamer::fill, audio.rs:110-116: serve out from the remainder.
audio_fill_from_remainder(self, out_len) ==
    LET i == Min(self.remainder_len, out_len)
    IN  [self EXCEPT !.remainder_len = self.remainder_len - i, !.i = i, !.out_len = out_len]

\* audio::ExactStreamer::fill, audio.rs:123-140: one pass of the loop body
\* with a received batch of generated_len samples; break_ is the break.
audio_fill_take_batch(self, generated_len) ==
    IF generated_len > self.out_len - self.i
    THEN [ self   |-> [self EXCEPT !.remainder_len = generated_len - (self.out_len - self.i)],
           break_ |-> TRUE ]
    ELSE [ self   |-> [self EXCEPT !.i = self.i + generated_len],
           break_ |-> FALSE ]

\* Where a consumer goes when its fill call returns: the callback returns to
\* the device, FFTStreamer::run goes on to its send.
AfterFill(c) == IF c = "fft" THEN "send" ELSE "idle"

\* audio::init has returned: the device runs with its callback, the worker
\* and the FFT thread are spawned, the GUI loop starts.
AudioInit ==
    /\ cpu = "scalar"
    /\ LoopIdle
    /\ StreamIdle
    /\ RecIdle
    /\ GenIdle
    /\ MainIdle
    /\ EngIdle
    /\ WgIdle /\ CylIdle /\ XfIdle
    /\ gen_lock = "free"
    /\ params = 0
    /\ worker = [pc |-> "lock", buf |-> <<>>, locked_params |-> 0, after_drop |-> 0]
    /\ audio_channel = [c \in Consumers |-> <<>>]
    /\ consumer = [c \in Consumers |-> [pc |-> "idle", remainder_len |-> 0, i |-> 0, out_len |-> 0]]
    /\ gui_pc = "idle"
    /\ dropped_at = "never"

\* audio.rs:70, gen.write(): the worker takes the write lock and generate
\* starts.
WorkerLock ==
    /\ worker.pc = "lock"
    /\ gen_lock = "free"
    /\ gen_lock' = "worker"
    /\ worker' = [worker EXCEPT !.pc = "generate", !.buf = <<>>, !.locked_params = params,
                                !.after_drop = IF gui_pc = "dropped" THEN @ + 1 ELSE @]
    /\ UNCHANGED <<params, audio_channel, consumer, gui_pc, dropped_at, not_audio_vars>>

\* audio.rs:70, Generator::generate (gen.rs:213-226): the next samples of buf
\* are computed from the Generator's parameters as they are now.
WorkerGenerate ==
    /\ worker.pc = "generate"
    /\ Len(worker.buf) < GenSteps
    /\ worker' = [worker EXCEPT !.buf = Append(@, params)]
    /\ UNCHANGED <<gen_lock, params, audio_channel, consumer, gui_pc, dropped_at,
                   not_audio_vars>>

\* A worker whose lock guard lives on after generate, over the two sends.
WorkerUnlock_keeps_lock ==
    /\ worker.pc = "generate"
    /\ Len(worker.buf) = GenSteps
    /\ worker' = [worker EXCEPT !.pc = "try_send"]
    /\ UNCHANGED <<gen_lock, params, audio_channel, consumer, gui_pc, dropped_at,
                   not_audio_vars>>

\* audio.rs:71: generate has returned and the lock guard goes out of scope.
WorkerUnlock ==
    /\ worker.pc = "generate"
    /\ Len(worker.buf) = GenSteps
    /\ gen_lock' = "free"
    /\ worker' = [worker EXCEPT !.pc = "try_send"]
    /\ UNCHANGED <<params, audio_channel, consumer, gui_pc, dropped_at, not_audio_vars>>

\* A send to the FFT channel that waits for room, as send does.
WorkerTrySend_waits ==
    /\ worker.pc = "try_send"
    /\ ~ReceiverAlive("fft") \/ Len(audio_channel["fft"]) < GENERATOR_CHANNEL_SIZE
    /\ audio_channel' =
         IF ReceiverAlive("fft")
         THEN [audio_channel EXCEPT !["fft"] = Append(@, GENERATOR_BUFFER_SIZE)]
         ELSE audio_channel
    /\ worker' = [worker EXCEPT !.pc = "send"]
    /\ UNCHANGED <<gen_lock, params, consumer, gui_pc, dropped_at, not_audio_vars>>

\* audio.rs:73: let _ = generator_fft_sender.try_send(buf.to_vec()), which
\* fails, unnoticed, on a full or disconnected channel.
WorkerTrySend ==
    /\ worker.pc = "try_send"
    /\ audio_channel' =
         IF ReceiverAlive("fft") /\ Len(audio_channel["fft"]) < GENERATOR_CHANNEL_SIZE
         THEN [audio_channel EXCEPT !["fft"] = Append(@, GENERATOR_BUFFER_SIZE)]
         ELSE audio_channel
    /\ worker' = [worker EXCEPT !.pc = "send"]
    /\ UNCHANGED <<gen_lock, params, consumer, gui_pc, dropped_at, not_audio_vars>>

\* A send on a channel without a capacity.
WorkerSend_unbounded ==
    /\ worker.pc = "send"
    /\ ReceiverAlive("player")
    /\ audio_channel' = [audio_channel EXCEPT !["player"] = Append(@, GENERATOR_BUFFER_SIZE)]
    /\ worker' = [worker EXCEPT !.pc = "lock"]
    /\ UNCHANGED <<gen_lock, params, consumer, gui_pc, dropped_at, not_audio_vars>>

\* audio.rs:75: generator_sender.send(buf.to_vec()) returns Ok; it blocks
\* while the channel holds GENERATOR_CHANNEL_SIZE buffers.
WorkerSend ==
    /\ worker.pc = "send"
    /\ ReceiverAlive("player")
    /\ Len(audio_channel["player"]) < GENERATOR_CHANNEL_SIZE
    /\ audio_channel' = [audio_channel EXCEPT !["player"] = Append(@, GENERATOR_BUFFER_SIZE)]
    /\ worker' = [worker EXCEPT !.pc = "lock"]
    /\ UNCHANGED <<gen_lock, params, consumer, gui_pc, dropped_at, not_audio_vars>>

\* A send that notices the dropped Receiver only when the channel has room.
WorkerSendFails_unless_blocked ==
    /\ worker.pc = "send"
    /\ ~ReceiverAlive("player")
    /\ dropped_at.queued < GENERATOR_CHANNEL_SIZE
    /\ worker' = [worker EXCEPT !.pc = "done"]
    /\ UNCHANGED <<gen_lock, params, audio_channel, consumer, gui_pc, dropped_at,
                   not_audio_vars>>

\* audio.rs:75-77: send returns Err, the Receiver being dropped (a blocked
\* send is woken by the drop): break, and the thread ends with its Senders.
WorkerSendFails ==
    /\ worker.pc = "send"
    /\ ~ReceiverAlive("player")
    /\ worker' = [worker EXCEPT !.pc = "done"]
    /\ UNCHANGED <<gen_lock, params, audio_channel, consumer, gui_pc, dropped_at,
                   not_audio_vars>>

\* A consumer calls fill(out): the device calls StreamingPlayer::callback
\* (audio.rs:153-155), FFTStreamer::run its stream.fill (fft.rs:30).  The
\* call runs up to its first receiver.recv(), or to its end when the
\* remainder already fills out.
AudioFillCall(c) ==
    /\ consumer[c].pc = "idle"
    /\ \E n \in OutSizes(c) :
         \E r \in {audio_fill_from_remainder(consumer[c], n)} :
            consumer' = [consumer EXCEPT
                           ![c] = [r EXCEPT !.pc = IF r.i < n THEN "recv" ELSE AfterFill(c)]]
    /\ UNCHANGED <<gen_lock, params, worker, audio_channel, gui_pc, dropped_at,
                   not_audio_vars>>

\* A fill whose recv waits for the Generator's lock to be free.
AudioFillRecv_under_lock(c) ==
    /\ consumer[c].pc = "recv"
    /\ audio_channel[c] # <<>>
    /\ gen_lock = "free"
    /\ \E r \in {audio_fill_take_batch(consumer[c], Head(audio_channel[c]))} :
         consumer' = [consumer EXCEPT
                        ![c] = [r.self EXCEPT !.pc = IF r.break_ \/ ~(r.self.i < r.self.out_len)
                                                     THEN AfterFill(c) ELSE "recv"]]
    /\ audio_channel' = [audio_channel EXCEPT ![c] = Tail(@)]
    /\ UNCHANGED <<gen_lock, params, worker, gui_pc, dropped_at, not_audio_vars>>

\* audio.rs:119-140: receiver.recv() returns a batch; fill runs on to its
\* next recv() or to its end.
AudioFillRecv(c) ==
    /\ consumer[c].pc = "recv"
    /\ audio_channel[c] # <<>>
    /\ \E r \in {audio_fill_take_batch(consumer[c], Head(audio_channel[c]))} :
         consumer' = [consumer EXCEPT
                        ![c] = [r.self EXCEPT !.pc = IF r.break_ \/ ~(r.self.i < r.self.out_len)
                                                     THEN AfterFill(c) ELSE "recv"]]
    /\ audio_channel' = [audio_channel EXCEPT ![c] = Tail(@)]
    /\ UNCHANGED <<gen_lock, params, worker, gui_pc, dropped_at, not_audio_vars>>

\* audio.rs:119-122: receiver.recv() fails, the channel being empty and its
\* Sender dropped: expect("Stream channel unexpectedly disconnected")
\* panics, and the thread unwinds.
AudioFillExpect(c) ==
    /\ consumer[c].pc = "recv"
    /\ audio_channel[c] = <<>>
    /\ ~SendersAlive
    /\ consumer' = [consumer EXCEPT ![c].pc = "panicked"]
    /\ UNCHANGED <<gen_lock, params, worker, audio_channel, gui_pc, dropped_at,
                   not_audio_vars>>

\* fft.rs:40-52: FFTStreamer::run sends the spectrum to the GUI and loops;
\* it breaks when the GUI's Receiver is dropped, and the thread ends with
\* its ExactStreamer.
FftSend ==
    /\ consumer["fft"].pc = "send"
    /\ IF gui_pc \in {"idle", "locked"}
       THEN /\ consumer' = [consumer EXCEPT !["fft"].pc = "idle"]
            /\ UNCHANGED audio_channel
       ELSE /\ consumer' = [consumer EXCEPT !["fft"].pc = "done"]
            /\ audio_channel' = [audio_channel EXCEPT !["fft"] = <<>>]
    /\ UNCHANGED <<gen_lock, params, worker, gui_pc, dropped_at, not_audio_vars>>

\* A GUI pass that takes the Generator without waiting for the lock.
GuiLock_without_waiting ==
    /\ gui_pc = "idle"
    /\ gen_lock' = "gui"
    /\ gui_pc' = "locked"
    /\ UNCHANGED <<params, worker, audio_channel, consumer, dropped_at, not_audio_vars>>

\* gui.rs:286: let mut generator = generator.write()
GuiLock ==
    /\ gui_pc = "idle"
    /\ gen_lock = "free"
    /\ gen_lock' = "gui"
    /\ gui_pc' = "locked"
    /\ UNCHANGED <<params, worker, audio_channel, consumer, dropped_at, not_audio_vars>>

\* gui.rs:287-: a widget of the pass changes a parameter, or the reset
\* button calls generator.reset() (gui.rs:350).
GuiMutate ==
    /\ gui_pc = "locked"
    /\ params < MaxMutations
    /\ params' = params + 1
    /\ UNCHANGED <<gen_lock, worker, audio_channel, consumer, gui_pc, dropped_at,
                   not_audio_vars>>

\* The end of the block opened at gui.rs:285: the write guard is dropped.
GuiUnlock ==
    /\ gui_pc = "locked"
    /\ gen_lock' = "free"
    /\ gui_pc' = "idle"
    /\ UNCHANGED <<params, worker, audio_channel, consumer, dropped_at, not_audio_vars>>

\* main.rs:252-269, WindowEvent::DroppedFile: the engine is replaced under
\* the write lock when load_engine returned Ok, and left alone otherwise.
DroppedFile ==
    /\ gui_pc = "idle"
    /\ \E loaded \in BOOLEAN :
         IF loaded
         THEN /\ gen_lock = "free"
              /\ params < MaxMutations
              /\ params' = params + 1
         ELSE UNCHANGED params
    /\ UNCHANGED <<gen_lock, worker, audio_channel, consumer, gui_pc, dropped_at,
                   not_audio_vars>>

\* main.rs:280, 302: break 'main; the GUI's block ends and gui_state is
\* dropped with the Receiver of the FFT thread's spectra.
GuiLoopEnd ==
    /\ gui_pc = "idle"
    /\ gui_pc' = "ended"
    /\ UNCHANGED <<gen_lock, params, worker, audio_channel, consumer, dropped_at,
                   not_audio_vars>>

\* main.rs:305, drop(audio): the device is closed once no callback runs, and
\* the StreamingPlayer is dropped with its Receiver and what is queued.
AudioDrop ==
    /\ gui_pc = "ended"
    /\ consumer["player"].pc = "idle"
    /\ consumer' = [consumer EXCEPT !["player"].pc = "closed"]
    /\ audio_channel' = [audio_channel EXCEPT !["player"] = <<>>]
    /\ gui_pc' = "dropped"
    /\ dropped_at' = [pc |-> worker.pc, queued |-> Len(audio_channel["player"])]
    /\ UNCHANGED <<gen_lock, params, worker, not_audio_vars>>

\* The steps of the generator worker thread.
AudioWorker ==
    \/ WorkerLock \/ WorkerGenerate \/ WorkerUnlock \/ WorkerTrySend \/ WorkerSend
    \/ WorkerSendFails

AudioNext ==
    \/ AudioWorker
    \/ \E c \in Consumers : AudioFillCall(c) \/ AudioFillRecv(c) \/ AudioFillExpect(c)
    \/ FftSend
    \/ GuiLock \/ GuiMutate \/ GuiUnlock \/ DroppedFile \/ GuiLoopEnd \/ AudioDrop

SpecAudio == AudioInit /\ [][AudioNext]_vars

\* The worker is a thread of its own, which the scheduler runs; its lock()
\* returns once the lock stays free and its send once the channel has room
\* or the Receiver is dropped.
SpecAudioLive == AudioInit /\ [][AudioNext]_vars /\ WF_vars(AudioWorker)

(***************************************************************************)
(* main, main.rs:47-308: loading the engine config, the headless run       *)
(* (warm-up, recording, crossfade, WAV) and the GUI's event loop.  A time  *)
(* given in seconds on the command line is a fraction Seconds(n, rate); an *)
(* engine is the config it was loaded from; a generated sample is its      *)
(* number in the run.                                                      *)
(***************************************************************************)
\* Whether a is at least b, both in seconds.
SecondsGeq(a, b) == a.samples * b.rate >= b.samples * a.rate

\* f32::max on seconds
SecondsMax(a, b) == IF SecondsGeq(a, b) THEN a ELSE b

\* utils.rs:8-10: (seconds * sample_rate as f32).max(1.0) as usize
seconds_to_samples(seconds, sample_rate) ==
    LET samples == (seconds.samples * sample_rate) \div seconds.rate
    IN  IF samples >= 1 THEN samples ELSE 1

\* The paths a config is loaded from, and the files behind them: an engine
\* config, or a file that ron cannot parse as an Engine; no file is behind
\* "missing.esc".
Paths == {"a.esc", "b.esc", "broken.esc", "missing.esc"}
Files == [path \in Paths \ {"missing.esc"} |-> IF path = "broken.esc" THEN "unparsable" ELSE "engine"]

\* A load_engine that takes whatever file it can open for an engine.
load_engine_file_unparsed(path) ==
    IF path \notin DOMAIN Files
    THEN [ok |-> FALSE, engine |-> "none", error |-> "Failed to open file"]
    ELSE [ok |-> TRUE, engine |-> path, error |-> "none"]

\* utils.rs:26-38, load_engine(path, sample_rate): File::open, then
\* ron::de::from_reader, then fix_engine on the engine read.
load_engine_file(path) ==
    IF path \notin DOMAIN Files
    THEN [ok |-> FALSE, engine |-> "none", error |-> "Failed to open file"]
    ELSE IF Files[path] # "engine"
         THEN [ok |-> FALSE, engine |-> "none", error |-> "Failed to load config"]
         ELSE [ok |-> TRUE, engine |-> path, error |-> "none"]

\* A time of t half samples, in seconds.
HalfSamples(t) == Seconds(t, 2 * SampleRate)

\* The command lines of a headless run: warmup_time, reclen and crossfade
\* always have a value there (default_value_if("headless", ..)), and
\* crossfade_given is occurrences_of("crossfade") != 0, which a default
\* value leaves at 0.  --headless requires --config.
HeadlessArgs ==
    [ config          : Paths,
      headless        : {TRUE},
      warmup_time     : {HalfSamples(t) : t \in 0..MaxWarmupTime},
      reclen          : {HalfSamples(t) : t \in 0..MaxRecordTime},
      crossfade       : {HalfSamples(t) : t \in 0..MaxCrossfadeTime},
      crossfade_given : BOOLEAN ]

\* The command lines of a GUI run, which reads none of the three times.
GuiArgs ==
    [ config          : Paths \cup {"none"},
      headless        : {FALSE},
      warmup_time     : {HalfSamples(0)},
      reclen          : {HalfSamples(0)},
      crossfade       : {HalfSamples(0)},
      crossfade_given : {FALSE} ]

\* main.rs:148-149: shifted[i] * (1.0 - fade) + shifted[i + fade_len] * fade
\* with fade = k / fade_len.
crossfade_mix_reversed(x, y, k, fade_len) == TDiv(x * k + y * (fade_len - k), fade_len)

crossfade_mix(x, y, k, fade_len) == TDiv(x * (fade_len - k) + y * k, fade_len)

\* main.rs:133-138: output rotated by half its length.
crossfade_shifted(output, len, half_len) ==
    [i \in 0..(len - 1) |-> output[(half_len + i) % len]]

\* main.rs:140-150: the first half of shifted, then shifted from
\* half_len + fade_len on, the last fade_len samples of the first half
\* faded into the samples that were cut out.
crossfade_spliced(shifted, len, half_len, fade_len) ==
    [i \in 0..(len - fade_len - 1) |->
        IF i < half_len - fade_len THEN shifted[i]
        ELSE IF i < half_len
             THEN crossfade_mix(shifted[i], shifted[i + fade_len],
                                i - (half_len - fade_len), fade_len)
             ELSE shifted[i + fade_len]]

\* main.rs:130-150
crossfade_output(output, crossfade_size) ==
    crossfade_spliced(crossfade_shifted(output, VecLen(output), VecLen(output) \div 2),
                      VecLen(output), VecLen(output) \div 2, crossfade_size \div 2)

\* main is entered with its command line parsed.
MainInit ==
    /\ cpu = "scalar"
    /\ LoopIdle
    /\ StreamIdle
    /\ RecIdle
    /\ GenIdle
    /\ AudioIdle
    /\ EngIdle
    /\ WgIdle /\ CylIdle /\ XfIdle
    /\ main_args \in HeadlessArgs \cup GuiArgs
    /\ main_pc = "start"
    /\ main_engine = "none"
    /\ main_output = <<>>
    /\ main_run = [ generated  |-> 0,
                    crossfaded |-> FALSE,
                    recorder   |-> FALSE,
                    wav        |-> <<>>,
                    exit_code  |-> "running",
                    last_drop  |-> [path |-> "none", before |-> "none"] ]

\* std::process::exit(code), or the return of main with code 0.
MainExit(code) ==
    /\ main_pc' = "exited"
    /\ main_run' = [main_run EXCEPT !.exit_code = code]

\* main.rs:66-95: the engine is loaded from --config, or the default config
\* is taken, and the generator is built.
MainLoadConfig ==
    /\ main_pc = "start"
    /\ \E r \in { IF main_args.config = "none"
                  THEN [ok |-> TRUE, engine |-> "default", error |-> "none"]
                  ELSE load_engine_file(main_args.config) } :
         IF r.ok
         THEN /\ main_engine' = r.engine
              /\ main_pc' = IF main_args.headless THEN "warmup" ELSE "audio_init"
              /\ UNCHANGED main_run
         ELSE /\ MainExit(1)
              /\ UNCHANGED main_engine
    /\ UNCHANGED <<main_args, main_output, not_main_vars>>

\* main.rs:104-107: the warm-up buffer is generated.
MainWarmup ==
    /\ main_pc = "warmup"
    /\ main_run' = [main_run EXCEPT
                      !.generated = @ + seconds_to_samples(main_args.warmup_time, SampleRate)]
    /\ main_pc' = "record"
    /\ UNCHANGED <<main_args, main_engine, main_output, not_main_vars>>

\* main.rs:109-114: output is generated.
MainRecord ==
    /\ main_pc = "record"
    /\ \E len \in {seconds_to_samples(main_args.reclen, SampleRate)} :
         /\ main_output' = [k \in 0..(len - 1) |-> main_run.generated + k + 1]
         /\ main_run' = [main_run EXCEPT !.generated = @ + len]
    /\ main_pc' = "crossfade"
    /\ UNCHANGED <<main_args, main_engine, not_main_vars>>

\* main.rs:116-151: when --crossfade occurs on the command line, exit 4 on a
\* crossfade as long as output, and the crossfade otherwise.
MainCrossfade ==
    /\ main_pc = "crossfade"
    /\ IF main_args.crossfade_given
       THEN \E crossfade_size \in
                 { seconds_to_samples(SecondsMax(main_args.crossfade, Seconds(1, SampleRate)),
                                      SampleRate) } :
               IF crossfade_size >= VecLen(main_output)
               THEN /\ MainExit(4)
                    /\ UNCHANGED main_output
               ELSE /\ main_output' = crossfade_output(main_output, crossfade_size)
                    /\ main_run' = [main_run EXCEPT !.crossfaded = TRUE]
                    /\ main_pc' = "write"
       ELSE /\ main_pc' = "write"
            /\ UNCHANGED <<main_output, main_run>>
    /\ UNCHANGED <<main_args, main_engine, not_main_vars>>

\* main.rs:153-159 and the return of main: Recorder::new, record(output),
\* stop_wait.
MainWriteWav ==
    /\ main_pc = "write"
    /\ main_pc' = "exited"
    /\ main_run' = [main_run EXCEPT
                      !.recorder = TRUE,
                      !.wav = Append(@, [write_samples([samples |-> <<>>, flushed |-> FALSE],
                                                       main_output)
                                           EXCEPT !.flushed = TRUE]),
                      !.exit_code = 0]
    /\ UNCHANGED <<main_args, main_engine, main_output, not_main_vars>>

\* main.rs:167-175: audio::init, exit 3 when SDL2 audio fails.
MainAudioInit ==
    /\ main_pc = "audio_init"
    /\ \E ok \in BOOLEAN :
         IF ok THEN main_pc' = "gui" /\ UNCHANGED main_run ELSE MainExit(3)
    /\ UNCHANGED <<main_args, main_engine, main_output, not_main_vars>>

\* audio.rs:70: while the GUI runs the worker generates samples from the
\* generator's engine.
MainGenerate ==
    /\ main_pc = "gui"
    /\ main_run.generated < MaxGuiSamples
    /\ main_run' = [main_run EXCEPT !.generated = @ + 1]
    /\ UNCHANGED <<main_args, main_pc, main_engine, main_output, not_main_vars>>

\* main.rs:252-269, WindowEvent::DroppedFile(path)
MainDroppedFile ==
    /\ main_pc = "gui"
    /\ \E path \in Paths :
         \E r \in {load_engine_file(path)} :
            /\ main_engine' = IF r.ok THEN r.engine ELSE main_engine
            /\ main_run' = [main_run EXCEPT
                              !.last_drop = [path |-> path, before |-> main_engine]]
    /\ UNCHANGED <<main_args, main_pc, main_output, not_main_vars>>

\* main.rs:271-305: CloseRequested or Escape, break 'main, and main returns.
MainClose ==
    /\ main_pc = "gui"
    /\ MainExit(0)
    /\ UNCHANGED <<main_args, main_engine, main_output, not_main_vars>>

MainNext ==
    \/ MainLoadConfig \/ MainWarmup \/ MainRecord \/ MainCrossfade \/ MainWriteWav
    \/ MainAudioInit \/ MainGenerate \/ MainDroppedFile \/ MainClose

SpecMain == MainInit /\ [][MainNext]_vars

(***************************************************************************)
(* Deserializing an engine (deser.rs), fix_engine (utils.rs:40-91) and the *)
(* GUI widgets that replace cylinders and waveguides (gui.rs).             *)
(***************************************************************************)
\* constants.rs:4
MAX_CYLINDERS == 16

\* crate::SAMPLE_RATE (deser.rs:3), the rate deserialization derives the
\* lengths for before fix_engine derives them again for the runtime rate.
SAMPLE_RATE == 2 * SampleRate

\* From<LoopBufferDeser> for LoopBuffer
LoopBuffer_from(from, feature) ==
    [ delay |-> from,
      len   |-> AsUsize(from.samples * SAMPLE_RATE, from.rate),
      data  |-> ZeroVec(get_best_simd_size(AsUsize(from.samples * SAMPLE_RATE, from.rate),
                                           feature)),
      pos   |-> 0 ]

\* From<LowPassFilterDeser> for LowPassFilter; len in half samples
LowPassFilter_from(from, feature) ==
    LET wanted == (2 * from.samples * SAMPLE_RATE) \div from.rate
        len == IF wanted > 2 * SAMPLE_RATE THEN 2 * SAMPLE_RATE
               ELSE IF wanted < 2 THEN 2 ELSE wanted
    IN  [ samples |-> LoopBuffer_new((len + 1) \div 2, SAMPLE_RATE, feature),
          delay   |-> from,
          len     |-> len ]

\* A deserialized WaveGuide: each chamber persists its own delay, alpha and
\* beta are read as written, c1_out and c0_out are #[serde(skip)].
WaveGuide_from(from, feature) ==
    [ chamber0 |-> [samples |-> LoopBuffer_from(from.delay0, feature)],
      chamber1 |-> [samples |-> LoopBuffer_from(from.delay1, feature)],
      alpha    |-> from.alpha,
      beta     |-> from.beta,
      c1_out   |-> 0,
      c0_out   |-> 0 ]

\* The delays config files persist: negative, zero, a fraction of a sample
\* and whole samples.
ConfigDelays == {Seconds(t, 2 * SampleRate) : t \in (-1)..MaxDelayTime}

\* The rpm and the reflectivities of config files: in range, and out of range.
ConfigParams ==
    { [rpm |-> 15 * SampleRate, alpha |-> 1, beta |-> 0],
      [rpm |-> 0, alpha |-> -1, beta |-> 1],
      [rpm |-> -1, alpha |-> -2, beta |-> 2] }

\* The config files that parse as an Engine.  Every waveguide of a file is
\* written with the same two chamber delays and reflectivities and every
\* filter with the same delay.
EngineFiles ==
    [ params           : ConfigParams,
      cylinders        : 0..2,
      muffler_elements : 1..2,
      delay0           : ConfigDelays,
      delay1           : ConfigDelays,
      lpf_delay        : {Seconds(0, 2 * SampleRate), Seconds(3, 2 * SampleRate)} ]
    \cup
    [ params           : {[rpm |-> 15 * SampleRate, alpha |-> 1, beta |-> 0]},
      cylinders        : {MAX_CYLINDERS + 1},
      muffler_elements : {1},
      delay0           : {Seconds(4, 2 * SampleRate)},
      delay1           : {Seconds(4, 2 * SampleRate)},
      lpf_delay        : {Seconds(3, 2 * SampleRate)} ]

\* ron::de::from_reader::<_, Engine>(file): the Engine as deserialized.
from_reader(file, feature) ==
    LET waveguide == WaveGuide_from([delay0 |-> file.delay0, delay1 |-> file.delay1,
                                     alpha |-> file.params.alpha,
                                     beta |-> file.params.beta], feature)
        lpf == LowPassFilter_from(file.lpf_delay, feature)
    IN  [ rpm |-> file.params.rpm,
          intake_volume  |-> 1,
          exhaust_volume |-> 1,
          engine_vibrations_volume |-> 1,
          cylinders |->
              [c \in 0..(file.cylinders - 1) |->
                  [ crank_offset |-> IF file.cylinders > CrankOne THEN 0
                                     ELSE c * (CrankOne \div file.cylinders),
                    exhaust_waveguide   |-> waveguide,
                    intake_waveguide    |-> waveguide,
                    extractor_waveguide |-> waveguide,
                    intake_open_refl    |-> 0,
                    intake_closed_refl  |-> 1,
                    exhaust_open_refl   |-> 0,
                    exhaust_closed_refl |-> file.params.alpha,
                    piston_motion_factor |-> 40,
                    ignition_factor |-> 20,
                    ignition_time   |-> 2,
                    cyl_sound         |-> 0,
                    extractor_exhaust |-> 0 ]],
          intake_noise |-> Noise_default(0),
          intake_noise_factor |-> 0,
          intake_noise_lp |-> lpf,
          engine_vibration_filter |-> lpf,
          muffler |->
              [ straight_pipe |-> waveguide,
                muffler_elements |-> [m \in 0..(file.muffler_elements - 1) |-> waveguide] ],
          intake_valve_shift  |-> 0,
          exhaust_valve_shift |-> 1,
          crankshaft_fluctuation |-> 0,
          crankshaft_fluctuation_lp |-> lpf,
          crankshaft_pos    |-> 0,
          exhaust_collector |-> 0,
          intake_collector  |-> 0 ]

\* fix_engine on the two chambers of one waveguide.
fix_chambers(waveguide, sample_rate, feature) ==
    [waveguide EXCEPT
       !.chamber0.samples = fix_loop_buffer(@.delay, sample_rate, feature),
       !.chamber1.samples = fix_loop_buffer(@.delay, sample_rate, feature)]

\* A fix_engine that leaves the extractor waveguides as deserialized.
fix_engine_but_extractors(engine, sample_rate, feature) ==
    [engine EXCEPT
       !.crankshaft_fluctuation_lp = fix_lpf(@.delay, sample_rate, feature),
       !.engine_vibration_filter = fix_lpf(@.delay, sample_rate, feature),
       !.intake_noise_lp = fix_lpf(@.delay, sample_rate, feature),
       !.muffler.muffler_elements =
           [m \in DOMAIN @ |-> fix_chambers(@[m], sample_rate, feature)],
       !.muffler.straight_pipe = fix_chambers(@, sample_rate, feature),
       !.cylinders =
           [c \in DOMAIN @ |->
               [@[c] EXCEPT
                  !.exhaust_waveguide = fix_chambers(@, sample_rate, feature),
                  !.intake_waveguide = fix_chambers(@, sample_rate, feature)]]]

\* fix_engine
fix_engine(engine, sample_rate, feature) ==
    [engine EXCEPT
       !.crankshaft_fluctuation_lp = fix_lpf(@.delay, sample_rate, feature),
       !.engine_vibration_filter = fix_lpf(@.delay, sample_rate, feature),
       !.intake_noise_lp = fix_lpf(@.delay, sample_rate, feature),
       !.muffler.muffler_elements =
           [m \in DOMAIN @ |-> fix_chambers(@[m], sample_rate, feature)],
       !.muffler.straight_pipe = fix_chambers(@, sample_rate, feature),
       !.cylinders =
           [c \in DOMAIN @ |->
               [@[c] EXCEPT
                  !.exhaust_waveguide = fix_chambers(@, sample_rate, feature),
                  !.extractor_waveguide = fix_chambers(@, sample_rate, feature),
                  !.intake_waveguide = fix_chambers(@, sample_rate, feature)]]]

\* An update that compares the length only.
WaveGuide_update_on_length(self, delay, alpha, beta, samples_per_second, feature) ==
    IF delay # self.chamber0.samples.len
    THEN <<WaveGuide_new(delay, alpha, beta, samples_per_second, feature)>>
    ELSE <<>>

\* WaveGuide::update (get_changed in gui.rs): <<the replacement>>, or <<>>
\* for None.
WaveGuide_update(self, delay, alpha, beta, samples_per_second, feature) ==
    IF delay # self.chamber0.samples.len \/ alpha # self.alpha \/ beta # self.beta
    THEN <<WaveGuide_new(delay, alpha, beta, samples_per_second, feature)>>
    ELSE <<>>

\* if let Some(new) = waveguide.get_changed(delay, alpha, beta, sr) { waveguide = new }
\* with the waveguide's own alpha and beta, as every length slider calls it.
resized(waveguide, delay, feature) ==
    IF WaveGuide_update(waveguide, delay, waveguide.alpha, waveguide.beta,
                        SampleRate, feature) = <<>>
    THEN waveguide
    ELSE WaveGuide_update(waveguide, delay, waveguide.alpha, waveguide.beta,
                          SampleRate, feature)[1]

\* gui.rs:1040-1082: the cylinders after the cylinder count slider gave
\* num_cylinders.  The parameters all cylinders share are copied from
\* cylinder (a clone of cylinders[0]); a greater count pushes one cylinder.
new_cylinders(cylinders, num_cylinders) ==
    IF num_cylinders <= VecLen(cylinders)
    THEN [c \in 0..(num_cylinders - 1) |-> cylinders[c]]
    ELSE [c \in 0..VecLen(cylinders) |->
             IF c < VecLen(cylinders) THEN cylinders[c]
             ELSE [cylinders[0] EXCEPT
                     !.crank_offset = TDiv((num_cylinders - 1) * CrankOne, num_cylinders)]]

\* The lengths in samples a cavity length slider sets: distance_to_samples
\* is at least 1.
CavityLengths == 1..MaxCavity

\* The values of the cylinder count slider (MIN = 1.0, max = MAX_CYLINDERS).
CylinderCounts == {1, 2, 3, MAX_CYLINDERS}

\* Some LoopBuffer of the delays of a file gets length 0 at a rate, so that
\* get_best_simd_size computes 0 - 1.
LenUnderflows(file, rate) ==
    \E delay \in {file.delay0, file.delay1} : AsUsize(delay.samples * rate, delay.rate) = 0

EngInit ==
    /\ cpu \in {"sse2", "scalar"}
    /\ LoopIdle /\ StreamIdle /\ RecIdle /\ GenIdle /\ AudioIdle /\ MainIdle
    /\ WgIdle /\ CylIdle /\ XfIdle
    /\ eng_build \in {"debug", "release"}
    /\ eng_file \in EngineFiles
    /\ eng_pc = "start"
    /\ eng_engine = <<>>
    /\ eng_edits = 0

\* load_engine on a file that parses panics in a build with overflow checks
\* when a LoopBuffer gets length 0, in deserialization or in fix_engine.
EngLoadPanics ==
    /\ eng_pc = "start"
    /\ eng_build = "debug"
    /\ LenUnderflows(eng_file, SAMPLE_RATE) \/ LenUnderflows(eng_file, SampleRate)
    /\ eng_pc' = "panicked"
    /\ UNCHANGED <<eng_build, eng_file, eng_engine, eng_edits>>
    /\ UNCHANGED not_eng_vars

\* load_engine(path, sample_rate) returns Ok(engine).
EngLoad ==
    /\ eng_pc = "start"
    /\ ~ ( /\ eng_build = "debug"
           /\ LenUnderflows(eng_file, SAMPLE_RATE) \/ LenUnderflows(eng_file, SampleRate) )
    /\ eng_engine' = <<fix_engine(from_reader(eng_file, cpu), SampleRate, cpu)>>
    /\ eng_pc' = "loaded"
    /\ UNCHANGED <<eng_build, eng_file, eng_edits>>
    /\ UNCHANGED not_eng_vars

\* A GUI pass on an engine without cylinders: generator.engine.cylinders[0]
\* (gui.rs:863) is out of bounds.
GuiNoCylinder ==
    /\ eng_pc = "loaded"
    /\ VecLen(eng_engine[1].cylinders) = 0
    /\ eng_pc' = "panicked"
    /\ eng_engine' = <<>>
    /\ UNCHANGED <<eng_build, eng_file, eng_edits>>
    /\ UNCHANGED not_eng_vars

\* The cylinder count slider is moved to value.
GuiCylinderCount ==
    /\ eng_pc = "loaded"
    /\ eng_edits < MaxEdits
    /\ VecLen(eng_engine[1].cylinders) > 0
    /\ \E value \in CylinderCounts :
         /\ value # VecLen(eng_engine[1].cylinders)
         /\ eng_engine' = <<[eng_engine[1] EXCEPT !.cylinders = new_cylinders(@, value)]>>
    /\ eng_edits' = eng_edits + 1
    /\ UNCHANGED <<eng_build, eng_file, eng_pc>>
    /\ UNCHANGED not_eng_vars

\* A cavity length slider of the muffler is moved: the straight pipe
\* (gui.rs:729-762) or a muffler element (gui.rs:796-828).
GuiMufflerLength ==
    /\ eng_pc = "loaded"
    /\ eng_edits < MaxEdits
    /\ VecLen(eng_engine[1].cylinders) > 0
    /\ \E delay \in CavityLengths :
         \/ eng_engine' = <<[eng_engine[1] EXCEPT
                           !.muffler.straight_pipe = resized(@, delay, cpu)]>>
         \/ \E m \in DOMAIN eng_engine[1].muffler.muffler_elements :
              eng_engine' = <<[eng_engine[1] EXCEPT
                             !.muffler.muffler_elements[m] = resized(@, delay, cpu)]>>
    /\ eng_edits' = eng_edits + 1
    /\ UNCHANGED <<eng_build, eng_file, eng_pc>>
    /\ UNCHANGED not_eng_vars

\* A cavity length slider of cylinder c is moved (gui.rs:1091-1176).
GuiCylinderLength ==
    /\ eng_pc = "loaded"
    /\ eng_edits < MaxEdits
    /\ \E c \in DOMAIN eng_engine[1].cylinders, delay \in CavityLengths :
         \/ eng_engine' = <<[eng_engine[1] EXCEPT
                           !.cylinders[c].intake_waveguide = resized(@, delay, cpu)]>>
         \/ eng_engine' = <<[eng_engine[1] EXCEPT
                           !.cylinders[c].exhaust_waveguide = resized(@, delay, cpu)]>>
         \/ eng_engine' = <<[eng_engine[1] EXCEPT
                           !.cylinders[c].extractor_waveguide = resized(@, delay, cpu)]>>
    /\ eng_edits' = eng_edits + 1
    /\ UNCHANGED <<eng_build, eng_file, eng_pc>>
    /\ UNCHANGED not_eng_vars

EngNext ==
    \/ EngLoadPanics
    \/ EngLoad
    \/ GuiNoCylinder
    \/ GuiCylinderCount
    \/ GuiMufflerLength
    \/ GuiCylinderLength

SpecEngine == EngInit /\ [][EngNext]_vars

(***************************************************************************)
(* A WaveGuide driven by its owner: pop, then push, as a cylinder or the   *)
(* muffler does once per sample, and the GUI's update between two samples. *)
(***************************************************************************)
\* Reflection factors.
Reflectivities == {-1, 0, 1}

\* The samples pushed into the waveguide under test: below, at and above
\* WAVEGUIDE_MAX_AMP, of both signs.
WgInputs == {-30, -WAVEGUIDE_MAX_AMP, 0, WAVEGUIDE_MAX_AMP + 5}

\* The waveguide is as WaveGuide::new builds it or as load_engine leaves it,
\* each chamber with a length of its own.
WgInit ==
    /\ cpu = "sse2"
    /\ LoopIdle /\ StreamIdle /\ RecIdle /\ GenIdle /\ AudioIdle /\ MainIdle
    /\ EngIdle /\ CylIdle /\ XfIdle
    /\ \E delay0 \in 1..MaxChamber, delay1 \in 1..MaxChamber,
          alpha \in Reflectivities, beta \in Reflectivities :
         wg = fix_chambers(
                  WaveGuide_from([delay0 |-> Seconds(delay0, SampleRate),
                                  delay1 |-> Seconds(delay1, SampleRate),
                                  alpha |-> alpha, beta |-> beta], cpu),
                  SampleRate, cpu)
    /\ wg_last = [op |-> "new", before |-> wg, args |-> <<>>, ret |-> <<>>]
    /\ wg_ops = 0

\* wg.pop()
WgPop ==
    /\ wg_ops < MaxWgOps
    /\ wg_last.op # "pop"
    /\ \E popped \in {WaveGuide_pop(wg)} :
         /\ wg' = popped.self
         /\ wg_last' = [op |-> "pop", before |-> wg, args |-> <<>>,
                        ret |-> <<popped.alpha, popped.beta, popped.dampened>>]
    /\ wg_ops' = wg_ops + 1
    /\ UNCHANGED not_wg_vars

\* wg.push(x0_in, x1_in), after a pop
WgPush ==
    /\ wg_ops < MaxWgOps
    /\ wg_last.op = "pop"
    /\ \E x0_in \in WgInputs, x1_in \in WgInputs :
         /\ wg' = WaveGuide_push(wg, x0_in, x1_in)
         /\ wg_last' = [op |-> "push", before |-> wg, args |-> <<x0_in, x1_in>>,
                        ret |-> <<>>]
    /\ wg_ops' = wg_ops + 1
    /\ UNCHANGED not_wg_vars

\* if let Some(new) = wg.update(delay, alpha, beta, sr) { wg = new }, between
\* two samples.
WgUpdate ==
    /\ wg_ops < MaxWgOps
    /\ wg_last.op # "pop"
    /\ \E delay \in 1..MaxChamber, alpha \in Reflectivities, beta \in Reflectivities :
         \E new \in {WaveGuide_update(wg, delay, alpha, beta, SampleRate, cpu)} :
            /\ wg' = IF new = <<>> THEN wg ELSE new[1]
            /\ wg_last' = [op |-> "update", before |-> wg,
                           args |-> <<delay, alpha, beta>>, ret |-> new]
    /\ wg_ops' = wg_ops + 1
    /\ UNCHANGED not_wg_vars

WgNext == WgPop \/ WgPush \/ WgUpdate

SpecWaveGuide == WgInit /\ [][WgNext]_vars

(***************************************************************************)
(* A Cylinder driven by Generator::gen: pop with the crankshaft position   *)
(* and the engine's valve shifts, then push.                               *)
(***************************************************************************)
\* Engine.intake_valve_shift and exhaust_valve_shift: "valve timing -0.5 -
\* 0.5" (gen.rs:52-55), in eighths of the cycle.
ValveShifts == (-(CrankOne \div 2))..(CrankOne \div 2)

CylInit ==
    /\ cpu = "sse2"
    /\ LoopIdle /\ StreamIdle /\ RecIdle /\ GenIdle /\ AudioIdle /\ MainIdle
    /\ EngIdle /\ WgIdle /\ XfIdle
    /\ \E crank_offset \in {0, CrankOne \div 2} :
         cyl = [ crank_offset |-> crank_offset,
                 exhaust_waveguide   |-> WaveGuide_new(1, 0, 0, SampleRate, cpu),
                 intake_waveguide    |-> WaveGuide_new(1, 0, 0, SampleRate, cpu),
                 extractor_waveguide |-> WaveGuide_new(1, 0, 0, SampleRate, cpu),
                 intake_open_refl    |-> 0,
                 intake_closed_refl  |-> 1,
                 exhaust_open_refl   |-> 0,
                 exhaust_closed_refl |-> 1,
                 piston_motion_factor |-> 40,
                 ignition_factor |-> 20,
                 ignition_time   |-> 2,
                 cyl_sound         |-> 0,
                 extractor_exhaust |-> 0 ]
    /\ cyl_shifts \in [intake : ValveShifts, exhaust : ValveShifts]
    /\ cyl_last = [op |-> "new", crank_pos |-> 0, n |-> 0]

\* cylinder.pop(crank_pos, last_exhaust_collector, intake_valve_shift,
\* exhaust_valve_shift), gen.rs:341-343
CylPop ==
    /\ cyl_last.n < MaxCylOps
    /\ cyl_last.op # "pop"
    /\ \E crank_pos \in 0..(CrankOne - 1), exhaust_collector \in {0, WAVEGUIDE_MAX_AMP + 5} :
         /\ cyl' = Cylinder_pop(cyl, crank_pos, exhaust_collector,
                                cyl_shifts.intake, cyl_shifts.exhaust).self
         /\ cyl_last' = [op |-> "pop", crank_pos |-> crank_pos, n |-> cyl_last.n + 1]
    /\ UNCHANGED cyl_shifts
    /\ UNCHANGED not_cyl_vars

\* cylinder.push(intake), gen.rs:372-374
CylPush ==
    /\ cyl_last.n < MaxCylOps
    /\ cyl_last.op = "pop"
    /\ \E intake \in {0, WAVEGUIDE_MAX_AMP + 5} :
         cyl' = Cylinder_push(cyl, intake).self
    /\ cyl_last' = [cyl_last EXCEPT !.op = "push", !.n = @ + 1]
    /\ UNCHANGED cyl_shifts
    /\ UNCHANGED not_cyl_vars

CylNext == CylPop \/ CylPush

SpecCylinder == CylInit /\ [][CylNext]_vars

(***************************************************************************)
(* A generator with the GUI's record button: the audio worker calls        *)
(* generate, the GUI attaches a Recorder, stops it and removes it, and the *)
(* Recorder's worker thread runs beside them.  The GUI and generate hold   *)
(* the write lock of the generator, so each is one step.                   *)
(***************************************************************************)
\* The engine the recording generator runs.
RecordedConfig ==
    [ rpm |-> 15 * SampleRate, cylinders |-> 1, muffler_elements |-> 1, muffler_refl |-> 1,
      exhaust_closed_refl |-> 1, noise |-> 1, seed |-> 11 ]

GrInit ==
    /\ cpu = "sse2"
    /\ LoopIdle /\ StreamIdle /\ RecIdle /\ AudioIdle /\ MainIdle
    /\ EngIdle /\ WgIdle /\ CylIdle /\ XfIdle
    /\ gen_config = RecordedConfig
    /\ generator = NewGenerator(gen_config, cpu)
    /\ buf = <<>>
    /\ gen_log = <<>>
    /\ gen_samples = 0
    /\ gen_resets = 0
    /\ gen_op = "new"

\* What no step of the generator or of its Recorder changes.
not_gr_vars == <<cpu, loop_vars, stream_vars, audio_vars, main_vars, eng_vars, wg_vars,
                 cyl_vars, xf>>

\* gui.rs:324-327: the record button is pressed with no recorder attached:
\* generator.recorder = Some(Recorder::new(..)).
GrStart ==
    /\ generator.recorder = "None"
    /\ worker_pc = Idle
    /\ generator' = [generator EXCEPT !.recorder = "Some"]
    /\ recorder' = [len |-> 0, running |-> TRUE, block_lock |-> "free"]
    /\ rec_channel' = <<>>
    /\ rec_receiver' = TRUE
    /\ worker_pc' = "spawned"
    /\ wav' = [samples |-> <<>>, flushed |-> FALSE]
    /\ caller_pc' = "idle"
    /\ enqueued' = <<>>
    /\ last_record' = [called |-> FALSE, running |-> FALSE, sent |-> FALSE]
    /\ stop_wait_returned' = FALSE
    /\ stopped_at' = "never"
    /\ UNCHANGED <<gen_config, buf, gen_log, gen_samples, gen_resets, gen_op, not_gr_vars>>

\* gui.rs:328-330: the record button is pressed with a recorder attached:
\* recorder.stop().
GrStop ==
    /\ generator.recorder = "Some"
    /\ Recorder_stop

\* gui.rs:290-314: the GUI finds the attached recorder not running and
\* removes it, which drops the Recorder.
GrRemove ==
    /\ generator.recorder = "Some"
    /\ caller_pc = "idle"
    /\ ~recorder.running
    /\ generator' = [generator EXCEPT !.recorder = "None"]
    /\ caller_pc' = "dropped"
    /\ stopped_at' = StoppedAt
    /\ UNCHANGED <<recorder, rec_channel, rec_receiver, worker_pc, wav, enqueued,
                   last_record, stop_wait_returned>>
    /\ UNCHANGED <<gen_config, buf, gen_log, gen_samples, gen_resets, gen_op, not_gr_vars>>

\* sample.abs() > 1.0 for some sample of bufvec, gen.rs:230-231
Clipping(bufvec) == \E k \in DOMAIN bufvec : Abs(bufvec[k]) > 1

\* Generator::generate(buf), gen.rs:205-239, with the recorder: after the
\* loop, if let Some(recorder): bufvec = buf.to_vec(), the clipping flag,
\* and recorder.record(bufvec), recorder.rs:103-108.
GrGenerate ==
    /\ caller_pc # "panicked"
    /\ \E len \in 1..MaxBuf :
         /\ gen_samples + len <= MaxSamples
         /\ \E ret \in {generate(generator, len)} :
              /\ buf' = ret.buf
              /\ gen_log' = ret.log
              /\ IF generator.recorder = "Some"
                 THEN /\ generator' = [ret.self EXCEPT
                                         !.recording_currently_clipping = Clipping(ret.buf)]
                      /\ IF recorder.running
                         THEN /\ recorder' = [recorder EXCEPT !.len = recorder.len + len]
                              /\ IF rec_receiver
                                 THEN /\ rec_channel' = Append(rec_channel, ret.buf)
                                      /\ enqueued' = enqueued \o VecToSeq(ret.buf)
                                      /\ caller_pc' = "idle"
                                 ELSE /\ caller_pc' = "panicked"
                                      /\ UNCHANGED <<rec_channel, enqueued>>
                         ELSE UNCHANGED <<recorder, rec_channel, enqueued, caller_pc>>
                      /\ last_record' = [called  |-> TRUE,
                                         running |-> recorder.running,
                                         sent    |-> recorder.running /\ rec_receiver]
                 ELSE /\ generator' = ret.self
                      /\ UNCHANGED <<recorder, rec_channel, enqueued, caller_pc, last_record>>
         /\ gen_samples' = gen_samples + len
    /\ gen_op' = "generate"
    /\ UNCHANGED <<gen_config, gen_resets, rec_receiver, worker_pc, wav, stop_wait_returned,
                   stopped_at, not_gr_vars>>

GrNext == GrStart \/ GrGenerate \/ GrStop \/ GrRemove \/ RecWorker

SpecGenRecorder == GrInit /\ [][GrNext]_vars

(***************************************************************************)
(* The crossfade of a headless recording, main.rs:116-151, statement by    *)
(* statement.  xf holds the locals of main; xf.recorded keeps the output   *)
(* as generate left it.                                                    *)
(***************************************************************************)
\* The recordings of n samples that are crossfaded: a ramp, and samples of
\* both signs.
Recordings(n) ==
    { [k \in 0..(n - 1) |-> 10 * (k + 1)],
      [k \in 0..(n - 1) |-> ((7 * k * k) % 11) - 5] }

\* A crossfade check that lets a crossfade as long as the output pass.
XfCheck_allows_equal ==
    /\ xf.pc = "check"
    /\ \E crossfade_size \in
           { seconds_to_samples(SecondsMax(xf.crossfade_duration, Seconds(1, SampleRate)),
                                SampleRate) } :
         xf' = [xf EXCEPT !.crossfade_size = crossfade_size,
                          !.pc = IF crossfade_size > VecLen(xf.output)
                                 THEN "exit4" ELSE "shift"]
    /\ UNCHANGED not_xf_vars

\* main.rs:112-114, 117: output has seconds_to_samples(record_time) samples
\* and generate has filled it; --crossfade was given.
XfInit ==
    /\ cpu = "scalar"
    /\ LoopIdle /\ StreamIdle /\ RecIdle /\ GenIdle /\ AudioIdle /\ MainIdle
    /\ EngIdle /\ WgIdle /\ CylIdle
    /\ \E build \in {"debug", "release"},
          record_time \in 0..MaxXfLen,
          crossfade_duration \in 0..(2 * MaxXfLen + 1) :
         \E output \in Recordings(seconds_to_samples(Seconds(record_time, SampleRate),
                                                     SampleRate)) :
            xf = [ pc |-> "check",
                   build |-> build,
                   crossfade_duration |-> Seconds(crossfade_duration, 2 * SampleRate),
                   recorded |-> output,
                   output |-> output,
                   crossfade_size |-> 0,
                   len |-> 0,
                   half_len |-> 0,
                   shifted |-> <<>>,
                   fade_len |-> 0,
                   start |-> 0,
                   end |-> 0,
                   i |-> 0 ]

\* main.rs:117-126: crossfade_size, and exit(4) when it is not below
\* output.len().
XfCheck ==
    /\ xf.pc = "check"
    /\ \E crossfade_size \in
           { seconds_to_samples(SecondsMax(xf.crossfade_duration, Seconds(1, SampleRate)),
                                SampleRate) } :
         xf' = [xf EXCEPT !.crossfade_size = crossfade_size,
                          !.pc = IF crossfade_size >= VecLen(xf.output)
                                 THEN "exit4" ELSE "shift"]
    /\ UNCHANGED not_xf_vars

\* A rotation of the output by one sample more than half its length.
XfShift_one_more ==
    /\ xf.pc = "shift"
    /\ \E len \in {VecLen(xf.output)} :
         xf' = [xf EXCEPT
                  !.len = len,
                  !.half_len = len \div 2,
                  !.shifted = [i \in 0..(len - 1) |-> xf.output[((len \div 2) + i + 1) % len]],
                  !.pc = "splice"]
    /\ UNCHANGED not_xf_vars

\* main.rs:130-138: len, half_len and shifted, the output rotated by
\* half_len.  The closure runs once per element, so not at all on an empty
\* output.
XfShift ==
    /\ xf.pc = "shift"
    /\ \E len \in {VecLen(xf.output)} :
         xf' = [xf EXCEPT
                  !.len = len,
                  !.half_len = len \div 2,
                  !.shifted = [i \in 0..(len - 1) |-> xf.output[((len \div 2) + i) % len]],
                  !.pc = "splice"]
    /\ UNCHANGED not_xf_vars

\* main.rs:140-146: the new output is shifted[..half_len] followed by
\* shifted[(half_len + crossfade_size / 2)..]; then fade_len, start and end.
\* A usize subtraction that underflows panics in a build with overflow
\* checks and wraps otherwise: a wrapped capacity is refused by
\* Vec::with_capacity, a wrapped start lies above end.  A slice that starts
\* beyond the end of shifted panics.
XfSplice ==
    /\ xf.pc = "splice"
    /\ \E fade_len \in {xf.crossfade_size \div 2} :
         IF \/ VecLen(xf.shifted) < fade_len
            \/ xf.half_len + fade_len > VecLen(xf.shifted)
            \/ (xf.half_len < fade_len /\ xf.build = "debug")
         THEN xf' = [xf EXCEPT !.pc = "panic"]
         ELSE xf' = [xf EXCEPT
                       !.output =
                           [i \in 0..(xf.len - fade_len - 1) |->
                               IF i < xf.half_len THEN xf.shifted[i]
                               ELSE xf.shifted[i + fade_len]],
                       !.fade_len = fade_len,
                       !.start = IF xf.half_len < fade_len
                                 THEN xf.half_len + 1
                                 ELSE xf.half_len - fade_len,
                       !.end = xf.half_len,
                       !.i = IF xf.half_len < fade_len
                             THEN xf.half_len + 1
                             ELSE xf.half_len - fade_len,
                       !.pc = "fade"]
    /\ UNCHANGED not_xf_vars

\* main.rs:147-150: one pass of for i in start..end, or its end.  An index
\* beyond the end of output or of shifted panics.
XfFade ==
    /\ xf.pc = "fade"
    /\ IF xf.i >= xf.end
       THEN xf' = [xf EXCEPT !.pc = "done"]
       ELSE IF xf.i >= VecLen(xf.output) \/ xf.i + xf.fade_len >= VecLen(xf.shifted)
            THEN xf' = [xf EXCEPT !.pc = "panic"]
            ELSE xf' = [xf EXCEPT
                          !.output[xf.i] = crossfade_mix(xf.shifted[xf.i],
                                                         xf.shifted[xf.i + xf.fade_len],
                                                         xf.i - xf.start, xf.fade_len),
                          !.i = xf.i + 1]
    /\ UNCHANGED not_xf_vars

XfNext == XfCheck \/ XfShift \/ XfSplice \/ XfFade

SpecCrossfade == XfInit /\ [][XfNext]_vars

(***************************************************************************)
(* Properties of the Generator.                                            *)
(***************************************************************************)
\* The events of sample s of the last generate call.
SampleLog(s) == gen_log[s]

\* Event e of a sample's log is an event of the waveguide (part, index).
IsEventOf(log, e, part, index) == log[e].part = part /\ log[e].index = index

\* The waveguides of the engine graph, as (part, index) pairs.
Waveguides ==
    ({"exhaust_waveguide", "intake_waveguide", "extractor_waveguide"}
        \X (0..(gen_config.cylinders - 1)))
    \cup {<<"straight_pipe", 0>>}
    \cup ({"muffler_element"} \X (0..(gen_config.muffler_elements - 1)))

\* C1: within the computation of every output sample, every waveguide of the
\* engine graph is popped before any waveguide is pushed: in the logged
\* sequence of pop and push events of one sample all pops strictly precede
\* all pushes.
C1_AllPopsPrecedeAllPushes ==
    gen_op = "generate" =>
        \A s \in DOMAIN gen_log :
            \A i, j \in DOMAIN SampleLog(s) :
                SampleLog(s)[i].op = "push" /\ SampleLog(s)[j].op = "pop" => j < i

\* C1, as the code has it: within one sample every waveguide is popped exactly
\* once and pushed exactly once, its pop before its push; every push of an
\* intake or exhaust waveguide, of the straight pipe and of a muffler element
\* comes after every pop of the sample; each extractor waveguide is pushed
\* directly after its own pop, inside Cylinder::pop.
C1_PopsPrecedePushesButExtractor ==
    gen_op = "generate" =>
        \A s \in DOMAIN gen_log :
            LET log == SampleLog(s)
            IN  /\ \A w \in Waveguides :
                     \E i, j \in DOMAIN log :
                        /\ i < j
                        /\ log[i].op = "pop" /\ log[j].op = "push"
                        /\ \A e \in DOMAIN log :
                              IsEventOf(log, e, w[1], w[2]) <=> e \in {i, j}
                /\ \A i, j \in DOMAIN log :
                     log[i].op = "push" /\ log[j].op = "pop" /\ i < j
                        => log[i].part = "extractor_waveguide"
                /\ \A i \in DOMAIN log :
                     log[i].op = "push" /\ log[i].part = "extractor_waveguide"
                        => /\ i > 1
                           /\ log[i - 1].op = "pop"
                           /\ IsEventOf(log, i - 1, "extractor_waveguide", log[i].index)

\* A generate call on an engine of two cylinders and two muffler elements has
\* returned, with a buffer of the longest length.
C1_Witness ==
    /\ gen_op = "generate"
    /\ gen_config.cylinders = MaxCylinders /\ MaxCylinders > 1
    /\ gen_config.muffler_elements = MaxMufflerElements
    /\ Len(gen_log) = MaxBuf
    /\ \A s \in DOMAIN gen_log :
          Len(SampleLog(s)) = 6 * MaxCylinders + 2 + 2 * MaxMufflerElements

\* The LoopBuffers a generator owns.
OwnedLoopBuffers(self) ==
    UNION { { self.engine.cylinders[c].exhaust_waveguide.chamber0.samples,
              self.engine.cylinders[c].exhaust_waveguide.chamber1.samples,
              self.engine.cylinders[c].intake_waveguide.chamber0.samples,
              self.engine.cylinders[c].intake_waveguide.chamber1.samples,
              self.engine.cylinders[c].extractor_waveguide.chamber0.samples,
              self.engine.cylinders[c].extractor_waveguide.chamber1.samples } :
            c \in DOMAIN self.engine.cylinders }
    \cup UNION { { self.engine.muffler.muffler_elements[m].chamber0.samples,
                   self.engine.muffler.muffler_elements[m].chamber1.samples } :
                 m \in DOMAIN self.engine.muffler.muffler_elements }
    \cup { self.engine.muffler.straight_pipe.chamber0.samples,
           self.engine.muffler.straight_pipe.chamber1.samples,
           self.engine.engine_vibration_filter.samples,
           self.engine.crankshaft_fluctuation_lp.samples,
           self.engine.intake_noise_lp.samples,
           self.dc_lp.samples }

\* C5: after Generator::reset returns, every LoopBuffer.data owned by the
\* generator is all zeros - both chambers of every waveguide and the sample
\* buffer of every low-pass filter, the DC blocker included - and cyl_sound,
\* extractor_exhaust, crankshaft_pos and the two collectors are 0.
C5_ResetZeroesAllRunningState ==
    gen_op = "reset" =>
        /\ \A samples \in OwnedLoopBuffers(generator) :
              \A i \in DOMAIN samples.data : samples.data[i] = 0
        /\ \A c \in DOMAIN generator.engine.cylinders :
              /\ generator.engine.cylinders[c].cyl_sound = 0
              /\ generator.engine.cylinders[c].extractor_exhaust = 0
        /\ generator.engine.crankshaft_pos = 0
        /\ generator.engine.exhaust_collector = 0
        /\ generator.engine.intake_collector = 0

\* A freshly constructed generator of the same config whose noise generator
\* is in the state of the noise generator of self.
FreshLike(self) ==
    [ NewGenerator(gen_config, cpu) EXCEPT !.engine.intake_noise = self.engine.intake_noise ]

\* C6: after any number of generate calls, reset followed by generate gives
\* the same buffer as generate on a freshly constructed generator of the same
\* config with the same noise.
C6_ResetThenGenerateIsFresh ==
    gen_op = "reset" =>
        \A len \in 1..MaxBuf :
            generate(generator, len).buf = generate(FreshLike(generator), len).buf

\* Some waveguide pop of the last generate call reported dampening.
SomePopDampened ==
    \E s \in DOMAIN gen_log :
        \E e \in DOMAIN SampleLog(s) :
            SampleLog(s)[e].op = "pop" /\ SampleLog(s)[e].dampened

\* C7: when a generate call returns, waveguides_dampened is true iff during
\* at least one sample of that call some waveguide pop reported dampening -
\* a cylinder waveguide, the straight pipe or a muffler element.
C7_DampenedIffSomePopDampened ==
    gen_op = "generate" => (generator.waveguides_dampened <=> SomePopDampened)

(***************************************************************************)
(* Properties of the Recorder.                                             *)
(***************************************************************************)
\* What the WAV holds once the samples record has enqueued are all written,
\* each once and in enqueue order.
WavOfEnqueued == [k \in 1..Len(enqueued) |-> ToI16(enqueued[k])]

\* C8: every batch record has enqueued has been written to the WAV exactly
\* once and in enqueue order when the worker has exited, whether it left its
\* receive loop because running became false or because recv_timeout timed
\* out.
C8_EnqueuedBatchesAllWritten ==
    worker_pc = "done" => wav.samples = WavOfEnqueued

\* C9: when stop_wait has returned, the worker has written every batch
\* enqueued before, has flushed the WAV and has released its lifetime lock.
C9_StopWaitReturnsAfterWorker ==
    stop_wait_returned =>
        /\ worker_pc = "done"
        /\ recorder.block_lock = "free"
        /\ wav.flushed
        /\ wav.samples = WavOfEnqueued

\* C10: a record call enqueues its batch iff running is true at the call,
\* and len is the number of samples enqueued so far.
C10_LenCountsEnqueuedSamples ==
    /\ recorder.len = Len(enqueued)
    /\ last_record.called => (last_record.sent <=> last_record.running)

\* The Recorder has been stopped (stop or stop_wait) or its handle dropped.
StoppedOrDropped == ~recorder.running \/ caller_pc = "dropped"

\* C11: once stop has been called or the Recorder handle has been dropped,
\* the worker eventually leaves its receive loop, drains the channel, flushes
\* the WAV and terminates.
C11_StoppedWorkerTerminates ==
    StoppedOrDropped ~> (worker_pc = "done" /\ wav.flushed)

\* The Recorder was stopped or dropped while its worker was blocked in
\* recv_timeout, and the worker has flushed the WAV and terminated.
C11_Witness ==
    /\ stopped_at = "recv"
    /\ worker_pc = "done"
    /\ wav.flushed
    /\ wav.samples # <<>>

(***************************************************************************)
(* Properties of the ExactStreamer.                                        *)
(***************************************************************************)
\* The batches queued in the channel, concatenated.
RECURSIVE Flatten(_)
Flatten(batches) ==
    IF batches = <<>> THEN <<>>
    ELSE VecToSeq(Head(batches)) \o Flatten(Tail(batches))

\* remainder[0..remainder_len]
RemainderHeld == SubSeq(VecToSeq(streamer.remainder), 1, streamer.remainder_len)

\* out[0..i] of a fill call blocked in recv().
OutInProgress ==
    IF fill_pc = "recv" THEN SubSeq(VecToSeq(fill_out), 1, fill_i) ELSE <<>>

\* C2: while every fill call so far completed successfully, the outs of the
\* completed calls, concatenated in call order, then the part of out already
\* written by a call in progress, then remainder[0..remainder_len], then the
\* batches still queued are together exactly the elements sent, in send
\* order: the filled outs are a prefix of the batches with every slot written,
\* the elements received and not delivered are the remainder, and nothing is
\* lost, duplicated or reordered.
C2_FilledOutsArePrefixOfBatches ==
    ~fill_failed =>
        /\ streamer.remainder_len <= VecLen(streamer.remainder)
        /\ delivered \o OutInProgress \o RemainderHeld \o Flatten(channel) = sent

\* C2 witness: a fill has just returned Ok after receiving a batch, outs of
\* four elements or more have been delivered, a surplus is held in a
\* remainder that had to grow, and a batch is still queued.
C2_Witness ==
    /\ fill_pc = "idle"
    /\ fill_result = "ok"
    /\ Len(delivered) >= 4
    /\ streamer.remainder_len >= 1
    /\ VecLen(streamer.remainder) > MaxRemainder
    /\ channel # <<>>

\* The fill call in progress cannot be completed: the Sender is gone, and
\* what the call has got from the remainder and the channel so far, with
\* all the batches still queued, is less than out.len().
Starved ==
    /\ fill_pc = "recv"
    /\ ~sender_alive
    /\ fill_i + Len(Flatten(channel)) < VecLen(fill_out)

\* Every slot of out holds an element that was sent.
OutFilled(out) == \A k \in DOMAIN out : out[k] # Stale(1)[0]

IsDelayRun(t) ==
    /\ Len(t) % 2 = 1
    /\ Len(t) >= 3
    /\ t[Len(t)].op = "pop"
    /\ \A i \in 1..((Len(t) - 1) \div 2) :
         t[2 * i - 1].op = "push" /\ t[2 * i].op = "advance"

\* v_i of a delay run, i counted from 0.
DelayRunInput(t, i) == t[2 * i + 1].value

\* C3: for a fresh DelayLine of length L, after push(v_i); advance() for
\* i = 0..M, pop() returns v_{M-L} when M >= L and 0 when M < L: the line
\* delays its input by exactly L samples.
C3_DelayIsExactlyLen ==
    IsDelayRun(lb_trace) =>
        LET M == (Len(lb_trace) - 1) \div 2 - 1
            L == lb.samples.len
        IN  lb_trace[Len(lb_trace)].value =
                IF M >= L THEN DelayRunInput(lb_trace, M - L) ELSE 0

\* C4: the storage of a LoopBuffer of logical length L is the smallest
\* multiple of the SIMD width W that is >= L, and every slot at an index in
\* [L, data.len()) is 0, after construction and after any sequence of push,
\* pop and advance.
C4_SimdPaddingZero ==
    LET data == lb.samples.data
        n    == Cardinality(DOMAIN data)
        L    == lb.samples.len
        W    == VF32_WIDTH(cpu)
    IN  /\ L >= 1
        /\ n % W = 0
        /\ n >= L
        /\ n - L < W
        /\ DOMAIN data = 0..(n - 1)
        /\ \A i \in L..(n - 1) : data[i] = 0

\* C4 witness: a padded buffer all of whose logical slots have been written,
\* and which has been popped.
C4_Witness ==
    /\ Cardinality(DOMAIN lb.samples.data) > lb.samples.len
    /\ lb.samples.len > 1
    /\ \A i \in 0..(lb.samples.len - 1) : lb.samples.data[i] # 0
    /\ \E k \in 1..Len(lb_trace) : lb_trace[k].op = "pop"

(***************************************************************************)
(* Properties of the audio stream.                                         *)
(***************************************************************************)
\* The buffers generated and not yet received by the audio callback: those
\* queued and the one the worker holds between generate and send.
Unconsumed ==
    Len(audio_channel["player"]) + (IF worker.pc \in {"try_send", "send"} THEN 1 ELSE 0)

\* C12: the channel from the worker to the audio callback never holds more
\* than GENERATOR_CHANNEL_SIZE buffers, each of GENERATOR_BUFFER_SIZE
\* samples; on a full channel the worker is blocked in send, and the buffers
\* generated and not yet consumed are at most those queued and one more.
C12_ChannelBounded ==
    /\ Len(audio_channel["player"]) <= GENERATOR_CHANNEL_SIZE
    /\ \A k \in DOMAIN audio_channel["player"] :
          audio_channel["player"][k] = GENERATOR_BUFFER_SIZE
    /\ Unconsumed <= GENERATOR_CHANNEL_SIZE + 1
    /\ ( /\ worker.pc = "send"
         /\ ReceiverAlive("player")
         /\ Len(audio_channel["player"]) = GENERATOR_CHANNEL_SIZE ) => ~ENABLED AudioWorker

\* The channel is full and the worker is blocked in send with one more buffer.
C12_Witness ==
    /\ worker.pc = "send"
    /\ ReceiverAlive("player")
    /\ Len(audio_channel["player"]) = GENERATOR_CHANNEL_SIZE

\* C13: after the Audio handle is dropped no send of the worker succeeds,
\* the worker starts at most the generate call it was at, its next send
\* fails and it terminates - also when the drop found it blocked on a full
\* channel - and a terminated worker does nothing more.
C13_DropEndsWorker ==
    /\ (gui_pc = "dropped") ~> (worker.pc = "done")
    /\ [](worker.after_drop <= 1)
    /\ [][gui_pc = "dropped" /\ worker.pc = "send" => worker'.pc \in {"send", "done"}]_vars
    /\ [][worker.pc = "done" => worker' = worker]_vars

\* The Audio handle was dropped while the worker was blocked in send on a
\* full channel, and the worker has terminated.
C13_Witness ==
    /\ gui_pc = "dropped"
    /\ dropped_at.pc = "send"
    /\ dropped_at.queued = GENERATOR_CHANNEL_SIZE
    /\ worker.pc = "done"

\* C14: a generate call runs only under the write lock, which the GUI holds
\* for every mutation, so every sample of the call is computed from the
\* parameters in effect when the call took the lock.
C14_GenerateSeesParamsAtLock ==
    /\ worker.pc = "generate" => gen_lock = "worker"
    /\ gui_pc = "locked" => gen_lock = "gui"
    /\ \A k \in DOMAIN worker.buf : worker.buf[k] = worker.locked_params

\* A generate call is under way on parameters the GUI has mutated before,
\* with samples computed and samples to come.
C14_Witness ==
    /\ worker.pc = "generate"
    /\ 0 < Len(worker.buf)
    /\ Len(worker.buf) < GenSteps
    /\ worker.locked_params > 0
    /\ gui_pc = "idle"

\* C15: the audio callback never waits for the Generator's lock: whoever
\* holds the lock, the callback can be called, and a callback in fill
\* goes on as soon as its channel holds a batch; it is blocked only in
\* recv on an empty channel.
C15_CallbackNeverTakesLock ==
    /\ consumer["player"].pc = "idle" => ENABLED AudioFillCall("player")
    /\ (consumer["player"].pc = "recv" /\ audio_channel["player"] # <<>>)
           => ENABLED AudioFillRecv("player")
    /\ consumer["player"].pc \in {"idle", "recv", "closed", "panicked"}
    /\ gen_lock \in {"free", "worker", "gui"}

\* The callback is in fill with a batch to receive while the GUI holds the
\* Generator's lock.
C15_Witness ==
    /\ gen_lock = "gui"
    /\ consumer["player"].pc = "recv"
    /\ consumer["player"].i > 0
    /\ audio_channel["player"] # <<>>

\* C17: no thread ends through a panic when a channel is closed: a consumer
\* blocked in fill (audio callback, FFT thread) ends without panicking.
C17_ClosedChannelNeverPanics ==
    \A c \in Consumers : consumer[c].pc # "panicked"

(***************************************************************************)
(* Properties of main.                                                     *)
(***************************************************************************)
\* A headless run whose config was loaded.
HeadlessRun == main_args.headless /\ main_engine # "none"

\* floor(seconds * sr)
WholeSamples(seconds) == (seconds.samples * SampleRate) \div seconds.rate

\* F = floor(crossfade * sr / 2)
HalfCrossfade(seconds) == (seconds.samples * SampleRate) \div (2 * seconds.rate)

\* C18: for any 0 < crossfade < record, the output written by a headless run
\* has the length record * sr - F with F = floor(crossfade * sr / 2).
C18_CrossfadeLengthLaw ==
    ( /\ HeadlessRun
      /\ main_pc = "exited"
      /\ main_args.crossfade.samples > 0
      /\ ~SecondsGeq(main_args.crossfade, main_args.reclen) )
    => /\ Len(main_run.wav) = 1
       /\ Len(main_run.wav[1].samples)
             = WholeSamples(main_args.reclen) - HalfCrossfade(main_args.crossfade)

\* C19: a headless run whose crossfade is at least as long as the recording
\* exits with code 4 before any crossfade is computed, without a Recorder
\* and without a WAV file.
C19_LongCrossfadeExits4 ==
    ( /\ HeadlessRun
      /\ main_pc \in {"write", "exited"}
      /\ SecondsGeq(main_args.crossfade, main_args.reclen) )
    => /\ main_pc = "exited"
       /\ main_run.exit_code = 4
       /\ ~main_run.crossfaded
       /\ ~main_run.recorder
       /\ main_run.wav = <<>>

\* The paths behind which there is no file, or a file that is no engine
\* config.
Unloadable == {path \in Paths : path \notin DOMAIN Files \/ Files[path] # "engine"}

\* C20: load_engine on a file that cannot be opened or parsed returns an
\* error and no engine; given such a --config main exits with code 1 before
\* any sample is generated, and such a file dropped on the GUI leaves the
\* generator's engine as it was.
C20_FailedLoadKeepsEngine ==
    /\ \A path \in Unloadable :
          ~load_engine_file(path).ok /\ load_engine_file(path).engine = "none"
    /\ (main_args.config \in Unloadable /\ main_pc # "start")
          => /\ main_pc = "exited"
             /\ main_run.exit_code = 1
             /\ main_run.generated = 0
             /\ main_engine = "none"
    /\ main_engine \notin Unloadable
    /\ main_run.last_drop.path \in Unloadable => main_engine = main_run.last_drop.before

\* In GUI mode, with samples generated from an engine that was dropped on
\* the window, a file that cannot be loaded has been dropped, and the
\* engine is the one before.
C20_Witness ==
    /\ main_pc = "gui"
    /\ main_run.generated > 0
    /\ main_run.last_drop.path \in Unloadable
    /\ main_engine \in Paths
    /\ main_engine # main_args.config

(***************************************************************************)
(* Properties of loading and editing an engine.                            *)
(***************************************************************************)
\* The waveguides of an engine: the straight pipe, the muffler elements and
\* the three waveguides of every cylinder.
EngineWaveguides(e) ==
    {e.muffler.straight_pipe}
    \cup {e.muffler.muffler_elements[m] : m \in DOMAIN e.muffler.muffler_elements}
    \cup UNION {{e.cylinders[c].exhaust_waveguide, e.cylinders[c].intake_waveguide,
                 e.cylinders[c].extractor_waveguide} : c \in DOMAIN e.cylinders}

\* The engine load_engine has just returned.
JustLoaded == eng_pc = "loaded" /\ eng_edits = 0

\* C21: after a config has been loaded, out-of-range parameters have been
\* clamped: every waveguide reflectivity alpha and beta lies in [-1, 1],
\* rpm > 0 and every persisted delay has yielded a positive length, whatever
\* the values in the config file.
C21_LoadClampsParameters ==
    JustLoaded =>
        /\ \A w \in EngineWaveguides(eng_engine[1]) :
              /\ Abs(w.alpha) <= 1 /\ Abs(w.beta) <= 1
              /\ w.chamber0.samples.len > 0 /\ w.chamber1.samples.len > 0
        /\ eng_engine[1].rpm > 0

\* The filters of an engine that a config file persists.
EngineFilters(e) ==
    {e.crankshaft_fluctuation_lp, e.engine_vibration_filter, e.intake_noise_lp}

\* The LoopBuffers of an engine: both chambers of every waveguide and the
\* samples of every filter.
EngineLoopBuffers(e) ==
    UNION {{w.chamber0.samples, w.chamber1.samples} : w \in EngineWaveguides(e)}
    \cup {f.samples : f \in EngineFilters(e)}

\* C22: every LoopBuffer in every reachable state has len >= 1, however it
\* was created: by LoopBuffer::new, by deserialization, by fix_engine for any
\* persisted delay and sample rate, or by a GUI cavity resize.
C22_LoopBufferLenPositive ==
    eng_pc = "loaded" => \A b \in EngineLoopBuffers(eng_engine[1]) : b.len >= 1

\* C23: in every reachable state the engine has between 1 and 16 cylinders,
\* after a config load and after any sequence of GUI cylinder count changes.
C23_CylinderCountInRange ==
    eng_pc = "loaded" =>
        /\ VecLen(eng_engine[1].cylinders) >= 1
        /\ VecLen(eng_engine[1].cylinders) <= MAX_CYLINDERS

\* A LoopBuffer as rebuilt for SampleRate: zeroed data, padded to whole SIMD
\* vectors with less than one vector of padding, pos = 0, and the length
\* given.
Rebuilt(b, len) ==
    /\ b.len = len
    /\ b.pos = 0
    /\ \A i \in DOMAIN b.data : b.data[i] = 0
    /\ VecLen(b.data) % VF32_WIDTH(cpu) = 0
    /\ VecLen(b.data) >= b.len
    /\ VecLen(b.data) < b.len + VF32_WIDTH(cpu)

\* delay * SampleRate in half samples, limited to [1, SampleRate] samples.
FilterLen(delay) ==
    IF 2 * delay.samples * SampleRate > 2 * SampleRate * delay.rate THEN 2 * SampleRate
    ELSE IF 2 * delay.samples * SampleRate < 2 * delay.rate THEN 2
    ELSE (2 * delay.samples * SampleRate) \div delay.rate

\* C28: after load_engine(path, sr) succeeds every derived buffer of the
\* engine has been rebuilt for sr: the three low-pass filters and both
\* chambers of every waveguide (straight pipe, muffler elements, intake,
\* exhaust and extractor waveguide of every cylinder) have zeroed SIMD-padded
\* data, pos = 0 and the length derived from their persisted delay and sr.
C28_LoadRebuildsAllBuffers ==
    JustLoaded =>
        /\ \A w \in EngineWaveguides(eng_engine[1]) :
              /\ Rebuilt(w.chamber0.samples,
                         AsUsize(eng_file.delay0.samples * SampleRate, eng_file.delay0.rate))
              /\ Rebuilt(w.chamber1.samples,
                         AsUsize(eng_file.delay1.samples * SampleRate, eng_file.delay1.rate))
        /\ \A f \in EngineFilters(eng_engine[1]) :
              /\ f.len = FilterLen(eng_file.lpf_delay)
              /\ Rebuilt(f.samples, (f.len + 1) \div 2)
        /\ VecLen(eng_engine[1].cylinders) = eng_file.cylinders
        /\ VecLen(eng_engine[1].muffler.muffler_elements) = eng_file.muffler_elements

\* An engine of two cylinders and two muffler elements has been loaded whose
\* chambers deserialization built with 4 and 2 samples and fix_engine
\* rebuilt with 2 and 1.
C28_Witness ==
    /\ JustLoaded
    /\ eng_file.cylinders = 2
    /\ eng_file.muffler_elements = 2
    /\ from_reader(eng_file, cpu).cylinders[1].extractor_waveguide.chamber0.samples.len = 4
    /\ eng_engine[1].cylinders[1].extractor_waveguide.chamber0.samples.len = 2
    /\ eng_engine[1].cylinders[1].extractor_waveguide.chamber1.samples.len = 1
    /\ eng_engine[1].intake_noise_lp.len = 3

\* C29: in every reachable state the two chambers of each WaveGuide have
\* the same logical length, whether the waveguide was built by
\* WaveGuide::new, replaced through update, or loaded from a config that
\* persists one delay per chamber.
C29_ChambersEqualLength ==
    eng_pc = "loaded" =>
        \A w \in EngineWaveguides(eng_engine[1]) :
            w.chamber0.samples.len = w.chamber1.samples.len

(***************************************************************************)
(* Properties of the WaveGuide.                                            *)
(***************************************************************************)
\* The raw values the last pop took from chamber0 and chamber1.
Raw0 == DelayLine_pop(wg_last.before.chamber0)
Raw1 == DelayLine_pop(wg_last.before.chamber1)

\* C24: WaveGuide::pop returns dampened = true iff the raw value popped from
\* chamber0 or from chamber1 has magnitude greater than WAVEGUIDE_MAX_AMP;
\* when both have magnitude at most 20 it returns dampened = false and
\* stores them unchanged as c0_out and c1_out.
C24_DampenedIffRawAboveMaxAmp ==
    wg_last.op = "pop" =>
        /\ wg_last.ret[3] <=> (Abs(Raw0) > WAVEGUIDE_MAX_AMP \/ Abs(Raw1) > WAVEGUIDE_MAX_AMP)
        /\ (Abs(Raw0) <= WAVEGUIDE_MAX_AMP /\ Abs(Raw1) <= WAVEGUIDE_MAX_AMP)
              => /\ wg.c0_out = Raw0
                 /\ wg.c1_out = Raw1

\* A pop found chamber0 above the threshold and chamber1, not zero, below it.
C24_Witness ==
    /\ wg_last.op = "pop"
    /\ Abs(Raw0) > WAVEGUIDE_MAX_AMP
    /\ Raw1 # 0
    /\ Abs(Raw1) <= WAVEGUIDE_MAX_AMP
    /\ wg_last.ret[3]

\* dampen keeps the sign of its input and is monotonic, seen on the two
\* values of one pop.
DampenKeepsOrder ==
    /\ (Raw0 > 0 => wg.c0_out > 0) /\ (Raw0 < 0 => wg.c0_out < 0)
    /\ (Raw1 > 0 => wg.c1_out > 0) /\ (Raw1 < 0 => wg.c1_out < 0)
    /\ (Raw0 = 0 => wg.c0_out = 0) /\ (Raw1 = 0 => wg.c1_out = 0)
    /\ (Raw0 <= Raw1 => wg.c0_out <= wg.c1_out)
    /\ (Raw1 <= Raw0 => wg.c1_out <= wg.c0_out)

C27_UpdateNoneIffUnchanged ==
    wg_last.op = "update" =>
        /\ wg_last.ret = <<>>
              <=> /\ wg_last.args[1] = wg_last.before.chamber0.samples.len
                  /\ wg_last.args[2] = wg_last.before.alpha
                  /\ wg_last.args[3] = wg_last.before.beta
        /\ wg_last.ret = <<>> => wg = wg_last.before
        /\ wg_last.ret # <<>> =>
              /\ wg = wg_last.ret[1]
              /\ wg.chamber0.samples.len = wg_last.args[1]
              /\ wg.chamber1.samples.len = wg_last.args[1]
              /\ wg.alpha = wg_last.args[2]
              /\ wg.beta = wg_last.args[3]

\* The current parameters were applied again to a waveguide that holds a
\* sample, and the sample is still there.
C27_Witness ==
    /\ wg_last.op = "update"
    /\ wg_last.ret = <<>>
    /\ \E i \in DOMAIN wg.chamber0.samples.data : wg.chamber0.samples.data[i] # 0

(***************************************************************************)
(* Properties of the Cylinder.                                             *)
(***************************************************************************)
\* The crank position of the cylinder in the last pop: (crank_pos +
\* self.crank_offset) % 1.0
CylCrank == Fract(cyl_last.crank_pos + cyl.crank_offset)

\* frac(x): the fractional part of a crank position, in [0, 1).
FracPart(x) == x % CrankOne

\* C26: the valve shift is added before the fractional part is taken:
\* Cylinder::pop evaluates the exhaust valve at frac(crank +
\* exhaust_valve_shift) and the intake valve at frac(crank +
\* intake_valve_shift), so for every crank in [0,1) and every shift in
\* [-0.5, 0.5] the valve argument lies in [0,1) and a shifted valve window
\* wraps around the end of the cycle.
C26_ShiftAddedBeforeFract ==
    cyl_last.op = "pop" =>
        /\ CylCrank + cyl_shifts.exhaust \in 0..(CrankOne - 1)
        /\ CylCrank + cyl_shifts.intake \in 0..(CrankOne - 1)
        /\ cyl.exhaust_waveguide.alpha =
              cyl.exhaust_closed_refl
              + MulTrig(cyl.exhaust_open_refl - cyl.exhaust_closed_refl,
                        exhaust_valve(FracPart(CylCrank + cyl_shifts.exhaust)))
        /\ cyl.intake_waveguide.alpha =
              cyl.intake_closed_refl
              + MulTrig(cyl.intake_open_refl - cyl.intake_closed_refl,
                        intake_valve(FracPart(CylCrank + cyl_shifts.intake)))

(***************************************************************************)
(* Properties of Generator::reset.                                         *)
(***************************************************************************)
\* The length, delay and capacity of a LoopBuffer.
LoopConfig(samples) ==
    [len |-> samples.len, delay |-> samples.delay, capacity |-> VecLen(samples.data)]

\* The reflectivities and the buffer lengths and delays of a waveguide.
WgConfig(waveguide) ==
    [ alpha |-> waveguide.alpha,
      beta  |-> waveguide.beta,
      chamber0 |-> LoopConfig(waveguide.chamber0.samples),
      chamber1 |-> LoopConfig(waveguide.chamber1.samples) ]

\* The length of a filter and of its buffer.
LpfConfig(filter) == [len |-> filter.len, samples |-> LoopConfig(filter.samples)]

\* The configuration parameters of a generator.
ConfigOf(self) ==
    [ volume |-> self.volume,
      samples_per_second |-> self.samples_per_second,
      dc_lp |-> LpfConfig(self.dc_lp),
      rpm |-> self.engine.rpm,
      intake_volume  |-> self.engine.intake_volume,
      exhaust_volume |-> self.engine.exhaust_volume,
      engine_vibrations_volume |-> self.engine.engine_vibrations_volume,
      cylinders |->
          [c \in DOMAIN self.engine.cylinders |->
              [ crank_offset |-> self.engine.cylinders[c].crank_offset,
                exhaust_waveguide   |-> WgConfig(self.engine.cylinders[c].exhaust_waveguide),
                intake_waveguide    |-> WgConfig(self.engine.cylinders[c].intake_waveguide),
                extractor_waveguide |-> WgConfig(self.engine.cylinders[c].extractor_waveguide),
                intake_open_refl    |-> self.engine.cylinders[c].intake_open_refl,
                intake_closed_refl  |-> self.engine.cylinders[c].intake_closed_refl,
                exhaust_open_refl   |-> self.engine.cylinders[c].exhaust_open_refl,
                exhaust_closed_refl |-> self.engine.cylinders[c].exhaust_closed_refl,
                piston_motion_factor |-> self.engine.cylinders[c].piston_motion_factor,
                ignition_factor |-> self.engine.cylinders[c].ignition_factor,
                ignition_time   |-> self.engine.cylinders[c].ignition_time ]],
      intake_noise_factor |-> self.engine.intake_noise_factor,
      intake_noise_lp |-> LpfConfig(self.engine.intake_noise_lp),
      engine_vibration_filter |-> LpfConfig(self.engine.engine_vibration_filter),
      straight_pipe |-> WgConfig(self.engine.muffler.straight_pipe),
      muffler_elements |->
          [m \in DOMAIN self.engine.muffler.muffler_elements |->
              WgConfig(self.engine.muffler.muffler_elements[m])],
      intake_valve_shift  |-> self.engine.intake_valve_shift,
      exhaust_valve_shift |-> self.engine.exhaust_valve_shift,
      crankshaft_fluctuation |-> self.engine.crankshaft_fluctuation,
      crankshaft_fluctuation_lp |-> LpfConfig(self.engine.crankshaft_fluctuation_lp) ]

\* C30: Generator::reset changes no configuration parameter: rpm, the
\* volumes, all reflectivities (alpha, beta, open and closed), the valve
\* shifts, the noise and fluctuation factors, the number of cylinders and of
\* muffler elements, the crank offsets and every buffer length and delay are
\* the same after reset as before it.
C30_ResetKeepsConfiguration ==
    [][gen_op' = "reset" => ConfigOf(generator') = ConfigOf(generator)]_vars

\* A reset of a running two-cylinder engine with reflecting valves and
\* muffler, after samples were generated.
C30_Witness ==
    /\ gen_op = "reset"
    /\ gen_samples > 0
    /\ generator.engine.rpm > 0
    /\ VecLen(generator.engine.cylinders) = 2
    /\ generator.engine.cylinders[0].exhaust_waveguide.alpha # 0
    /\ generator.engine.muffler.muffler_elements[0].beta # 0

(***************************************************************************)
(* Further properties of the ExactStreamer.                                *)
(***************************************************************************)
\* 0 <= remainder_len <= remainder.len()
RemainderInRange ==
    0 <= streamer.remainder_len /\ streamer.remainder_len <= VecLen(streamer.remainder)

\* The step is the first part of a fill call, lines 23-29.
IsFillCall == fill_pc = "idle" /\ UNCHANGED <<channel, sender_alive>>

\* The step is a pass of the loop of fill on a batch received, lines 32-51.
IsFillRecv == fill_pc = "recv" /\ channel # <<>> /\ channel' = Tail(channel)

\* generated.len() - (out.len() - i) of the batch at the head of the channel.
Surplus == VecLen(Head(channel)) - (VecLen(fill_out) - fill_i)

\* C31: in every reachable state of an ExactStreamer 0 <= remainder_len <=
\* remainder.len(); the remainder buffer is grown when a surplus is larger
\* than its capacity, and a fill that is served from the remainder moves the
\* unread rest to the front and decreases remainder_len by exactly the number
\* of elements copied out.
C31_RemainderLenWithinBuffer ==
    /\ RemainderInRange
    /\ [][ /\ RemainderInRange'
           /\ IsFillCall =>
                /\ fill_i' = Min(streamer.remainder_len, VecLen(fill_out'))
                /\ streamer'.remainder_len = streamer.remainder_len - fill_i'
                /\ VecLen(streamer'.remainder) = VecLen(streamer.remainder)
                /\ \A k \in 0..(fill_i' - 1) : fill_out'[k] = streamer.remainder[k]
                /\ \A k \in 0..(streamer'.remainder_len - 1) :
                       streamer'.remainder[k] = streamer.remainder[k + fill_i']
           /\ (IsFillRecv /\ Surplus > 0) =>
                /\ streamer'.remainder_len = Surplus
                /\ VecLen(streamer'.remainder) =
                       IF VecLen(streamer.remainder) < Surplus
                       THEN Surplus ELSE VecLen(streamer.remainder)
                /\ \A k \in 0..(Surplus - 1) :
                       streamer'.remainder[k] = Head(channel)[VecLen(fill_out) - fill_i + k]
           /\ (IsFillRecv /\ Surplus <= 0) => streamer' = streamer
         ]_vars

\* The remainder buffer has grown beyond its initial capacity, and a later
\* fill was served from it in part: the unread rest, which starts at index 0
\* with the element after the last one delivered, is shorter than the buffer.
C31_Witness ==
    /\ fill_pc = "idle"
    /\ fill_result = "ok"
    /\ VecLen(streamer.remainder) > MaxRemainder
    /\ 0 < streamer.remainder_len
    /\ streamer.remainder_len < VecLen(streamer.remainder)
    /\ delivered # <<>>
    /\ streamer.remainder[0] = delivered[Len(delivered)] + 1
    /\ channel = <<>>
    /\ Len(sent) = Len(delivered) + streamer.remainder_len

\* What the claim's parts about single steps say: a fill whose out is no
\* longer than the remainder returns at once and receives nothing; a batch is
\* received only by a fill whose out is not yet full, and then the remainder
\* is empty; the remainder buffer grows only on a batch longer than itself.
FillStepsReceiveWhenNeeded ==
    /\ (IsFillCall /\ VecLen(fill_out') <= streamer.remainder_len) =>
           /\ fill_pc' = "idle"
           /\ fill_result' = "ok"
           /\ fill_received' = fill_received
           /\ channel' = channel
    /\ (channel' # channel /\ Len(channel') < Len(channel)) => IsFillRecv
    /\ fill_received' # fill_received => IsFillRecv
    /\ IsFillRecv =>
           /\ fill_i < VecLen(fill_out)
           /\ streamer.remainder_len = 0
           /\ fill_received' = <<Head(channel)>>
    /\ VecLen(streamer'.remainder) > VecLen(streamer.remainder) =>
           /\ IsFillRecv
           /\ VecLen(Head(channel)) > VecLen(streamer.remainder)

XfL == VecLen(xf.recorded)
XfH == XfL \div 2
XfF == xf.crossfade_size \div 2
XfShifted(i) == xf.recorded[(XfH + i) % XfL]

\* C32: with L = len(output), H = L/2, F the fade length and shifted[i] =
\* output[(H + i) mod L], the crossfaded result r is shifted[0..H] followed by
\* shifted[H+F..L]: r[i] = shifted[i] for 0 <= i < H-F, r[H+j] =
\* shifted[H+F+j] for 0 <= j < L-H-F, and only the F samples r[H-F..H) are
\* blended, each from shifted[i] and shifted[i+F] with a weight that rises
\* linearly from 0 at i = H-F.
C32_CrossfadeIsSplicedShift ==
    xf.pc = "done" =>
        /\ VecLen(xf.output) = XfL - XfF
        /\ \A i \in 0..(XfH - XfF - 1) : xf.output[i] = XfShifted(i)
        /\ \A j \in 0..(XfL - XfH - XfF - 1) : xf.output[XfH + j] = XfShifted(XfH + XfF + j)
        /\ \A i \in (XfH - XfF)..(XfH - 1) :
              xf.output[i] = TDiv(XfShifted(i) * (XfF - (i - (XfH - XfF)))
                                  + XfShifted(i + XfF) * (i - (XfH - XfF)), XfF)
        /\ XfF > 0 => xf.output[XfH - XfF] = XfShifted(XfH - XfF)

\* A recording of six samples crossfaded over two: one sample before the
\* fade is kept, and the second faded sample is a blend that differs from
\* both samples it is made of.
C32_Witness ==
    /\ xf.pc = "done"
    /\ XfF >= 2
    /\ XfH - XfF >= 1
    /\ xf.output[XfH - XfF + 1] # XfShifted(XfH - XfF + 1)
    /\ xf.output[XfH - XfF + 1] # XfShifted(XfH + 1)

\* C38: for every recording length L >= 1 and every crossfade size cs with
\* 1 <= cs < L the headless crossfade never indexes out of range and never
\* underflows: the crossfade that main runs has such an L and cs, and with
\* F = cs/2 and H = L/2 it holds that F <= H, H + F < L, and i + F < L for
\* every blended index i in [H-F, H).
C38_CrossfadeIndicesInRange ==
    /\ xf.pc # "panic"
    /\ xf.pc \in {"shift", "splice", "fade", "done"} =>
          /\ XfL >= 1
          /\ 1 <= xf.crossfade_size /\ xf.crossfade_size < XfL
          /\ XfF <= XfH
          /\ XfH + XfF < XfL
          /\ \A i \in (XfH - XfF)..(XfH - 1) : i + XfF < XfL
    /\ (xf.pc = "fade" /\ xf.i < xf.end) =>
          /\ xf.i \in (XfH - XfF)..(XfH - 1)
          /\ xf.i < VecLen(xf.output)
          /\ xf.i + xf.fade_len < VecLen(xf.shifted)

\* The longest crossfade of a recording of odd length has been computed, in
\* which the fade starts at index 0 and its last sample reads shifted[L - 2].
C38_Witness ==
    /\ xf.pc = "done"
    /\ xf.crossfade_size = XfL - 1
    /\ XfL % 2 = 1
    /\ XfF = XfH
    /\ XfF >= 2

\* C39: after crossfading, the first sample of the result is the original
\* recording's sample at index H and the last sample of the result is the
\* original sample at index H-1 (H = L/2), so that the sample that follows
\* the end of the looped file is the one that followed it in the recording.
C39_LoopPointSeamless ==
    xf.pc = "done" =>
        /\ xf.output[0] = xf.recorded[XfH]
        /\ xf.output[VecLen(xf.output) - 1] = xf.recorded[XfH - 1]

\* A crossfade whose fade covers the whole first half, so that the first
\* sample of the result is a faded one, on a recording whose samples at H
\* and H-1 differ.
C39_Witness ==
    /\ xf.pc = "done"
    /\ XfF >= 1
    /\ xf.start = 0
    /\ xf.recorded[XfH] # xf.recorded[XfH - 1]
    /\ xf.output[0] # xf.output[VecLen(xf.output) - 1]

(***************************************************************************)
(* Properties of generate with a recorder.                                 *)
(***************************************************************************)
\* The step is a generate call.
IsGenerateCall == gen_samples' # gen_samples

\* C33: each Generator::generate(buf) call made while a running recorder is
\* attached enqueues exactly one batch, equal to the final contents of buf,
\* after all samples of that call are computed, so that the recorded stream
\* is the in-order concatenation of the buffers generated between recorder
\* start and stop; a call without an attached recorder enqueues nothing.
C33_GenerateEnqueuesItsBuffer ==
    [][ IsGenerateCall =>
          IF generator.recorder = "Some" /\ recorder.running
          THEN /\ rec_channel' = Append(rec_channel, buf')
               /\ enqueued' = enqueued \o VecToSeq(buf')
               /\ buf' = generate(generator, VecLen(buf')).buf
          ELSE /\ rec_channel' = rec_channel
               /\ enqueued' = enqueued
      ]_vars

\* The same, for the calls made while the Recorder's worker still holds its
\* Receiver.
GrWhileReceiving ==
    [][ (IsGenerateCall /\ generator.recorder = "Some" /\ recorder.running /\ rec_receiver) =>
          /\ rec_channel' = Append(rec_channel, buf')
          /\ enqueued' = enqueued \o VecToSeq(buf')
      ]_vars

BlockedInSend ==
    /\ worker.pc = "send"
    /\ ReceiverAlive("player")
    /\ Len(audio_channel["player"]) = GENERATOR_CHANNEL_SIZE

\* The audio callback can go on: it can be called, or its fill can receive.
CallbackCanStep == ENABLED AudioFillCall("player") \/ ENABLED AudioFillRecv("player")

\* C35: the generator worker holds the Generator's write lock only for the
\* duration of generate and has released it before it sends the buffer; so
\* even when the audio channel is full and the worker is blocked in send the
\* GUI thread can still acquire the lock, and the system of worker, GUI and
\* audio callback never reaches a deadlock: while the GUI runs, each of the
\* three can take a step or waits for one of the others that can.
C35_LockReleasedBeforeSend ==
    /\ gen_lock = "worker" <=> worker.pc = "generate"
    /\ gen_lock = "gui" <=> gui_pc = "locked"
    /\ BlockedInSend => (gui_pc = "idle" => ENABLED GuiLock)
    /\ gui_pc \in {"idle", "locked"} =>
          /\ \/ ENABLED AudioWorker
             \/ worker.pc = "lock" /\ ENABLED GuiUnlock
             \/ BlockedInSend /\ CallbackCanStep
          /\ \/ ENABLED GuiLock \/ ENABLED GuiUnlock
             \/ gui_pc = "idle" /\ gen_lock = "worker" /\ ENABLED AudioWorker
          /\ \/ CallbackCanStep
             \/ /\ consumer["player"].pc = "recv"
                /\ audio_channel["player"] = <<>>
                /\ ENABLED AudioWorker \/ (worker.pc = "lock" /\ ENABLED GuiUnlock)

\* The GUI holds the lock, with a parameter changed, while the worker is
\* blocked in send on a full channel and the callback is not running.
C35_Witness ==
    /\ BlockedInSend
    /\ gen_lock = "gui"
    /\ params > 0
    /\ consumer["player"].pc = "idle"

\* C36: sending to the FFT channel never blocks the generator worker: when
\* that channel is full the buffer is dropped (try_send), so a stalled or
\* absent FFT consumer cannot delay the audio stream, and every generated
\* buffer is still offered to the audio channel, in generation order: after
\* each generate the worker passes try_send at once, whatever the state of
\* the FFT channel, and its next step on the audio channel is the send of
\* the buffer it generated.
C36_FftSendNeverBlocks ==
    /\ [](worker.pc = "try_send" => ENABLED WorkerTrySend)
    /\ [](Len(audio_channel["fft"]) <= GENERATOR_CHANNEL_SIZE)
    /\ [][ /\ worker.pc = "generate" => worker'.pc \in {"generate", "try_send"}
           /\ (worker.pc = "try_send" /\ worker' # worker) =>
                /\ worker'.pc = "send"
                /\ worker'.buf = worker.buf
                /\ audio_channel'["player"] = audio_channel["player"]
                /\ audio_channel'["fft"] =
                      IF ReceiverAlive("fft")
                         /\ Len(audio_channel["fft"]) < GENERATOR_CHANNEL_SIZE
                      THEN Append(audio_channel["fft"], GENERATOR_BUFFER_SIZE)
                      ELSE audio_channel["fft"]
           /\ (worker.pc = "send" /\ worker' # worker) =>
                \/ /\ worker'.pc = "lock"
                   /\ audio_channel'["player"] =
                         Append(audio_channel["player"], GENERATOR_BUFFER_SIZE)
                \/ /\ worker'.pc = "done"
                   /\ ~ReceiverAlive("player")
         ]_vars

\* The FFT channel is full and its consumer is not receiving, the audio
\* channel is full too, and the audio callback has consumed a buffer: more
\* buffers were generated than the FFT channel holds, and the worker is on
\* its way to the next one.
C36_Witness ==
    /\ Len(audio_channel["fft"]) = GENERATOR_CHANNEL_SIZE
    /\ consumer["fft"].pc = "idle"
    /\ Len(audio_channel["player"]) = GENERATOR_CHANNEL_SIZE
    /\ consumer["player"].pc = "recv"
    /\ consumer["player"].i > 0
    /\ worker.pc = "generate"

====
